---- MODULE Spec2Model ----
(***************************************************************************)
(* Model of the Bitbucket Cloud API client of bb                           *)
(* (internal/api/client.go): URL construction, the single authenticated    *)
(* HTTP exchange (Request), its JSON interpretation (DoJSON) and the       *)
(* pagination walk (GetAllValues).                                         *)
(*                                                                         *)
(* Text is modelled as a sequence of one-character strings, so that the    *)
(* string functions the client calls (strings.TrimRight, TrimSpace,        *)
(* HasPrefix, url.Parse, URL.Query, Values.Encode, URL.String) are         *)
(* computed byte by byte.  Domain of the URL model: text without '#',       *)
(* without user-info ('@' in the authority) and without a bracketed host.  *)
(* Domain of strings.ToUpper: text whose runes are at most U+00FF, and     *)
(* bytes that are no UTF-8.                                                *)
(***************************************************************************)
EXTENDS Integers, Sequences, FiniteSets, TLC

\* ------------------------------------------------------------------ text

Str0 == << >>
SLASH == <<"/">>
HTTP == <<"h", "t", "t", "p", ":", "/", "/">>
HTTPS == <<"h", "t", "t", "p", "s", ":", "/", "/">>

\* strings.HasPrefix
HasPrefix(s, p) == Len(s) >= Len(p) /\ SubSeq(s, 1, Len(p)) = p

\* strings.Contains for a single byte
ContainsCh(s, c) == \E i \in 1..Len(s) : s[i] = c

\* index of the first occurrence of byte c in s, 0 when absent (strings.IndexByte + 1)
IndexCh(s, c) ==
    IF ContainsCh(s, c)
    THEN CHOOSE i \in 1..Len(s) : s[i] = c /\ \A j \in 1..(i - 1) : s[j] # c
    ELSE 0

\* strings.TrimRight(s, cutset) for a one-byte cutset
TrimRight(s, c) ==
    LET keep == {i \in 1..Len(s) : s[i] # c}
        last == IF keep = {} THEN 0 ELSE CHOOSE i \in keep : \A j \in keep : j <= i
    IN  SubSeq(s, 1, last)

\* unicode.IsSpace on a byte below 0x80: space, \t, \n, \v, \f, \r
IsSpace(c) == c \in {" ", "\t", "\n", "x0B", "\f", "\r"}

\* the UTF-8 encodings of the other runes unicode.IsSpace holds: U+0085,
\* U+00A0, U+1680, U+2000 to U+200A, U+2028, U+2029, U+202F, U+205F, U+3000
UnicodeSpaces ==
    {<<"xC2", "x85">>, <<"xC2", "xA0">>, <<"xE1", "x9A", "x80">>, <<"xE2", "x81", "x9F">>,
     <<"xE3", "x80", "x80">>}
        \cup {<<"xE2", "x80", b>> : b \in {"x80", "x81", "x82", "x83", "x84", "x85", "x86", "x87", "x88",
                                            "x89", "x8A", "xA8", "xA9", "xAF"}}

\* the number of bytes of the white-space rune s begins with, 0 when it
\* begins with none
SpaceAtStart(s) ==
    IF s = << >> THEN 0
    ELSE IF IsSpace(s[1]) THEN 1
    ELSE IF Len(s) >= 2 /\ SubSeq(s, 1, 2) \in UnicodeSpaces THEN 2
    ELSE IF Len(s) >= 3 /\ SubSeq(s, 1, 3) \in UnicodeSpaces THEN 3
    ELSE 0

\* the number of bytes of the white-space rune s ends with, 0 when it ends
\* with none
SpaceAtEnd(s) ==
    IF s = << >> THEN 0
    ELSE IF IsSpace(s[Len(s)]) THEN 1
    ELSE IF Len(s) >= 2 /\ SubSeq(s, Len(s) - 1, Len(s)) \in UnicodeSpaces THEN 2
    ELSE IF Len(s) >= 3 /\ SubSeq(s, Len(s) - 2, Len(s)) \in UnicodeSpaces THEN 3
    ELSE 0

RECURSIVE TrimLeftSpace(_)
\* strings.TrimLeftFunc(s, unicode.IsSpace)
TrimLeftSpace(s) ==
    IF SpaceAtStart(s) = 0 THEN s ELSE TrimLeftSpace(SubSeq(s, SpaceAtStart(s) + 1, Len(s)))

RECURSIVE TrimRightSpace(_)
\* strings.TrimRightFunc(s, unicode.IsSpace)
TrimRightSpace(s) ==
    IF SpaceAtEnd(s) = 0 THEN s ELSE TrimRightSpace(SubSeq(s, 1, Len(s) - SpaceAtEnd(s)))

\* strings.TrimSpace
TrimSpace(s) == TrimRightSpace(TrimLeftSpace(s))

RECURSIVE Flatten(_)
\* concatenation of a sequence of texts
Flatten(ss) == IF ss = << >> THEN << >> ELSE Head(ss) \o Flatten(Tail(ss))

\* strings.Cut(s, sep) for a one-byte separator: [before, after, found]
Cut(s, c) ==
    LET i == IndexCh(s, c)
    IN  IF i = 0
        THEN [before |-> s, after |-> Str0, found |-> FALSE]
        ELSE [before |-> SubSeq(s, 1, i - 1), after |-> SubSeq(s, i + 1, Len(s)), found |-> TRUE]

\* the 256 bytes in order (for the byte-wise order of sort.Strings and for
\* percent-escapes); a byte a string of the model cannot hold goes by the
\* name xNN of its value
Bytes ==
    <<"x00", "x01", "x02", "x03", "x04", "x05", "x06", "x07", "x08", "\t", "\n", "x0B", "\f", "\r", "x0E", "x0F",
       "x10", "x11", "x12", "x13", "x14", "x15", "x16", "x17", "x18", "x19", "x1A", "x1B", "x1C", "x1D", "x1E", "x1F",
       " ", "!", "\"", "#", "$", "%", "&", "'", "(", ")", "*", "+", ",", "-", ".", "/",
       "0", "1", "2", "3", "4", "5", "6", "7", "8", "9", ":", ";", "<", "=", ">", "?",
       "@", "A", "B", "C", "D", "E", "F", "G", "H", "I", "J", "K", "L", "M", "N", "O",
       "P", "Q", "R", "S", "T", "U", "V", "W", "X", "Y", "Z", "[", "\\", "]", "^", "_",
       "x60", "a", "b", "c", "d", "e", "f", "g", "h", "i", "j", "k", "l", "m", "n", "o",
       "p", "q", "r", "s", "t", "u", "v", "w", "x", "y", "z", "{", "|", "}", "~", "x7F",
       "x80", "x81", "x82", "x83", "x84", "x85", "x86", "x87", "x88", "x89", "x8A", "x8B", "x8C", "x8D", "x8E", "x8F",
       "x90", "x91", "x92", "x93", "x94", "x95", "x96", "x97", "x98", "x99", "x9A", "x9B", "x9C", "x9D", "x9E", "x9F",
       "xA0", "xA1", "xA2", "xA3", "xA4", "xA5", "xA6", "xA7", "xA8", "xA9", "xAA", "xAB", "xAC", "xAD", "xAE", "xAF",
       "xB0", "xB1", "xB2", "xB3", "xB4", "xB5", "xB6", "xB7", "xB8", "xB9", "xBA", "xBB", "xBC", "xBD", "xBE", "xBF",
       "xC0", "xC1", "xC2", "xC3", "xC4", "xC5", "xC6", "xC7", "xC8", "xC9", "xCA", "xCB", "xCC", "xCD", "xCE", "xCF",
       "xD0", "xD1", "xD2", "xD3", "xD4", "xD5", "xD6", "xD7", "xD8", "xD9", "xDA", "xDB", "xDC", "xDD", "xDE", "xDF",
       "xE0", "xE1", "xE2", "xE3", "xE4", "xE5", "xE6", "xE7", "xE8", "xE9", "xEA", "xEB", "xEC", "xED", "xEE", "xEF",
       "xF0", "xF1", "xF2", "xF3", "xF4", "xF5", "xF6", "xF7", "xF8", "xF9", "xFA", "xFB", "xFC", "xFD", "xFE", "xFF" >>

\* the value of a byte
Ord(c) == (CHOOSE i \in 1..Len(Bytes) : Bytes[i] = c) - 1

LowerLetters == {Bytes[i] : i \in 98..123}
UpperLetters == {Bytes[i] : i \in 66..91}
Digits == {Bytes[i] : i \in 49..58}

IsLetter(c) == c \in LowerLetters \cup UpperLetters
IsDigit(c) == c \in Digits

\* strings.ToLower on the bytes of the model
ToLower(s) == [i \in 1..Len(s) |-> IF s[i] \in UpperLetters THEN Bytes[Ord(s[i]) + 33] ELSE s[i]]

RECURSIVE LessText(_, _)
\* a < b in Go's string order (byte-wise lexicographic)
LessText(a, b) ==
    IF b = << >> THEN FALSE
    ELSE IF a = << >> THEN TRUE
    ELSE IF Head(a) # Head(b) THEN Ord(Head(a)) < Ord(Head(b))
    ELSE LessText(Tail(a), Tail(b))

RECURSIVE SortKeys(_)
\* the keys of a url.Values in the order Values.Encode writes them (sort.Strings)
SortKeys(S) ==
    IF S = {} THEN << >>
    ELSE LET m == CHOOSE k \in S : \A o \in S \ {k} : LessText(k, o)
         IN  <<m>> \o SortKeys(S \ {m})

\* ---------------------------------------------------------------- net/url

\* getScheme of net/url: [scheme, rest, err]
GetScheme(raw) ==
    LET stop == {i \in 1..Len(raw) :
                    ~IsLetter(raw[i]) /\ ~(i > 1 /\ (IsDigit(raw[i]) \/ raw[i] \in {"+", "-", "."}))}
        i == IF stop = {} THEN 0 ELSE CHOOSE k \in stop : \A j \in stop : k <= j
    IN  IF i # 0 /\ raw[i] = ":"
        THEN IF i = 1
             THEN [scheme |-> Str0, rest |-> Str0, err |-> "missing protocol scheme"]
             ELSE [scheme |-> SubSeq(raw, 1, i - 1), rest |-> SubSeq(raw, i + 1, Len(raw)), err |-> ""]
        ELSE [scheme |-> Str0, rest |-> raw, err |-> ""]

\* ishex, unhex of net/url
ishex(c) == IsDigit(c) \/ c \in {"a", "b", "c", "d", "e", "f", "A", "B", "C", "D", "E", "F"}
unhex(c) ==
    IF IsDigit(c) THEN Ord(c) - 48
    ELSE IF c \in {"a", "b", "c", "d", "e", "f"} THEN Ord(c) - 87
    ELSE Ord(c) - 55

\* "0123456789ABCDEF"
upperhex == <<"0", "1", "2", "3", "4", "5", "6", "7", "8", "9", "A", "B", "C", "D", "E", "F">>

\* shouldEscape of net/url for the modes "path", "host", "userPassword" and
\* "queryComponent"
shouldEscape(c, mode) ==
    IF IsLetter(c) \/ IsDigit(c) THEN FALSE
    ELSE IF mode = "host" /\ c \in {"!", "$", "&", "'", "(", ")", "*", "+", ",", ";", "=", ":", "[", "]",
                                    "<", ">", "\""}
    THEN FALSE
    ELSE IF c \in {"-", "_", ".", "~"} THEN FALSE
    ELSE IF c \in {"$", "&", "+", ",", "/", ":", ";", "=", "?", "@"}
    THEN CASE mode = "path" -> c = "?"
           [] mode = "userPassword" -> c \in {"@", "/", "?", ":"}
           [] OTHER -> TRUE
    ELSE TRUE

\* escape of net/url, one byte
EscapeCh(c, mode) ==
    IF ~shouldEscape(c, mode) THEN <<c>>
    ELSE IF c = " " /\ mode = "queryComponent" THEN <<"+">>
    ELSE <<"%", upperhex[(Ord(c) \div 16) + 1], upperhex[(Ord(c) % 16) + 1]>>

\* escape of net/url
escape(s, mode) == Flatten([i \in 1..Len(s) |-> EscapeCh(s[i], mode)])

\* unescape of net/url: the error of the first byte it rejects, a '%' that
\* two hexadecimal digits do not follow, in a host an escape of an ASCII byte
\* other than '%' or a byte that may not stand there; "" when it rejects none
RECURSIVE UnescapeError(_, _)
UnescapeError(s, mode) ==
    IF s = Str0 THEN ""
    ELSE IF Head(s) = "%"
    THEN IF Len(s) < 3 \/ ~ishex(s[2]) \/ ~ishex(s[3]) THEN "invalid URL escape"
         ELSE IF mode = "host" /\ unhex(s[2]) < 8 /\ SubSeq(s, 1, 3) # <<"%", "2", "5">>
         THEN "invalid URL escape"
         ELSE UnescapeError(SubSeq(s, 4, Len(s)), mode)
    ELSE IF mode = "host" /\ shouldEscape(Head(s), "host") /\ Ord(Head(s)) < 128 THEN "invalid host"
    ELSE UnescapeError(Tail(s), mode)

\* unescape of net/url: the text of a text it accepts
RECURSIVE Unescaped(_, _)
Unescaped(s, mode) ==
    IF s = Str0 THEN Str0
    ELSE IF Head(s) = "%"
    THEN <<Bytes[16 * unhex(s[2]) + unhex(s[3]) + 1]>> \o Unescaped(SubSeq(s, 4, Len(s)), mode)
    ELSE <<IF mode = "queryComponent" /\ Head(s) = "+" THEN " " ELSE Head(s)>> \o Unescaped(Tail(s), mode)

\* unescape of net/url: [text, err]
unescape(s, mode) ==
    [text |-> IF UnescapeError(s, mode) = "" THEN Unescaped(s, mode) ELSE Str0, err |-> UnescapeError(s, mode)]

\* validOptionalPort of net/url
validOptionalPort(port) ==
    port = Str0 \/ (Head(port) = ":" /\ \A i \in 2..Len(port) : IsDigit(port[i]))

\* the last ':' of a host and what follows it, the empty text when it has none
ColonPort(host) ==
    IF ~ContainsCh(host, ":") THEN Str0
    ELSE SubSeq(host, CHOOSE i \in 1..Len(host) : host[i] = ":" /\ \A j \in (i + 1)..Len(host) : host[j] # ":",
                Len(host))

\* parseHost of net/url: [text, err]
parseHost(host) ==
    IF ~validOptionalPort(ColonPort(host)) THEN [text |-> Str0, err |-> "invalid port after host"]
    ELSE unescape(host, "host")

\* stringContainsCTLByte of net/url
CTLBytes == {Bytes[i] : i \in 1..32} \cup {Bytes[128]}
stringContainsCTLByte(s) == \E i \in 1..Len(s) : s[i] \in CTLBytes

\* the URL value url.Parse fills in; err # "" stands for the *url.Error it returns
NoURL(err) ==
    [err |-> err, scheme |-> Str0, opaque |-> Str0, authority |-> FALSE, host |-> Str0,
     path |-> Str0, rawPath |-> Str0, rawQuery |-> Str0, forceQuery |-> FALSE]

\* parse: the split of what follows the scheme at its query: a lone trailing '?'
\* sets ForceQuery, otherwise the text is cut at the first '?'
SplitQuery(rest) ==
    IF Cardinality({i \in 1..Len(rest) : rest[i] = "?"}) = 1 /\ rest[Len(rest)] = "?"
    THEN [rest |-> SubSeq(rest, 1, Len(rest) - 1), rawQuery |-> Str0, forceQuery |-> TRUE]
    ELSE [rest |-> Cut(rest, "?").before, rawQuery |-> Cut(rest, "?").after, forceQuery |-> FALSE]

\* parse: the split of what follows "//" into the authority and the path
SplitAuthority(s) ==
    IF ContainsCh(s, "/")
    THEN [host |-> SubSeq(s, 1, IndexCh(s, "/") - 1), path |-> SubSeq(s, IndexCh(s, "/"), Len(s))]
    ELSE [host |-> s, path |-> Str0]

\* URL.setPath: the raw path, kept only when it is not the default encoding
\* of the path
RawPath(p) == IF escape(unescape(p, "path").text, "path") = p THEN Str0 ELSE p

\* parse: parseAuthority and setPath, which reject a bad host and a bad escape
ParseHostPath(scheme, hasAuth, hp, sq) ==
    IF parseHost(hp.host).err # "" THEN NoURL(parseHost(hp.host).err)
    ELSE IF unescape(hp.path, "path").err # "" THEN NoURL(unescape(hp.path, "path").err)
    ELSE [err |-> "", scheme |-> scheme, opaque |-> Str0, authority |-> hasAuth,
          host |-> parseHost(hp.host).text, path |-> unescape(hp.path, "path").text,
          rawPath |-> RawPath(hp.path), rawQuery |-> sq.rawQuery, forceQuery |-> sq.forceQuery]

\* parse after getScheme and the query split sq: a rootless path after a scheme is
\* opaque; "//" (but not "///" without a scheme) starts an authority
ParseRest(scheme, sq) ==
    IF ~HasPrefix(sq.rest, SLASH) /\ scheme # Str0
    THEN [NoURL("") EXCEPT !.scheme = scheme, !.opaque = sq.rest,
                           !.rawQuery = sq.rawQuery, !.forceQuery = sq.forceQuery]
    ELSE IF ~HasPrefix(sq.rest, SLASH) /\ ContainsCh(Cut(sq.rest, "/").before, ":")
    THEN NoURL("first path segment in URL cannot contain colon")
    ELSE IF HasPrefix(sq.rest, <<"/", "/">>) /\ (scheme # Str0 \/ ~HasPrefix(sq.rest, <<"/", "/", "/">>))
    THEN ParseHostPath(scheme, TRUE, SplitAuthority(SubSeq(sq.rest, 3, Len(sq.rest))), sq)
    ELSE ParseHostPath(scheme, FALSE, [host |-> Str0, path |-> sq.rest], sq)

\* parse after getScheme: the scheme is lower-cased
ParseAfterScheme(sch) ==
    IF sch.err # "" THEN NoURL(sch.err) ELSE ParseRest(ToLower(sch.scheme), SplitQuery(sch.rest))

\* url.Parse (net/url parse with viaRequest = false) on the model's domain
ParseURL(raw) ==
    IF stringContainsCTLByte(raw) THEN NoURL("invalid control character in URL")
    ELSE IF raw = <<"*">> THEN [NoURL("") EXCEPT !.path = <<"*">>]
    ELSE ParseAfterScheme(GetScheme(raw))

\* escape(_, encodePath) of one byte of a path
PathEscapeCh(c) == EscapeCh(c, "path")

\* validEncoded(_, encodePath) of net/url
validEncoded(s) ==
    \A i \in 1..Len(s) :
        \/ s[i] \in {"!", "$", "&", "'", "(", ")", "*", "+", ",", ";", "=", ":", "@", "[", "]", "%"}
        \/ ~shouldEscape(s[i], "path")

\* URL.EscapedPath of a URL with the fields path and rawPath
EscapedPath(u) ==
    IF u.rawPath # Str0 /\ validEncoded(u.rawPath) /\ unescape(u.rawPath, "path").err = ""
          /\ unescape(u.rawPath, "path").text = u.path
    THEN u.rawPath
    ELSE IF u.path = <<"*">> THEN <<"*">>
    ELSE Flatten([i \in 1..Len(u.path) |-> PathEscapeCh(u.path[i])])

\* URL.String: the part between the scheme and the query; a path whose
\* first segment has a colon gets "./" in front when nothing is written
\* before it (no scheme, no host)
HierPart(u, ep) ==
    IF u.opaque # Str0 THEN u.opaque
    ELSE (IF (u.scheme # Str0 \/ u.host # Str0) /\ u.authority /\ (u.host # Str0 \/ u.path # Str0)
          THEN <<"/", "/">> \o escape(u.host, "host") ELSE Str0)
         \o (IF ep # Str0 /\ Head(ep) # "/" /\ u.host # Str0 THEN SLASH ELSE Str0)
         \o (IF u.scheme = Str0 /\ u.host = Str0 /\ ContainsCh(Cut(ep, "/").before, ":")
             THEN <<".", "/">> ELSE Str0)
         \o ep

\* URL.String
URLString(u) ==
    (IF u.scheme # Str0 THEN u.scheme \o <<":">> ELSE Str0)
        \o HierPart(u, EscapedPath(u))
        \o (IF u.forceQuery \/ u.rawQuery # Str0 THEN <<"?">> \o u.rawQuery ELSE Str0)

\* url.QueryUnescape: [text, err]
QueryUnescape(s) == unescape(s, "queryComponent")

\* QueryEscape of one byte (escape(_, encodeQueryComponent))
QueryEscapeCh(c) == EscapeCh(c, "queryComponent")

QueryEscape(s) == Flatten([i \in 1..Len(s) |-> QueryEscapeCh(s[i])])

\* url.ParseQuery: one '&'-separated piece of a raw query as a list of at most
\* one key/value pair; an empty piece, one with a ';' and one whose key or
\* value has a malformed escape give none
QueryPair(piece) ==
    IF piece = Str0 \/ ContainsCh(piece, ";") THEN << >>
    ELSE IF QueryUnescape(Cut(piece, "=").before).err # "" \/ QueryUnescape(Cut(piece, "=").after).err # ""
    THEN << >>
    ELSE << <<QueryUnescape(Cut(piece, "=").before).text, QueryUnescape(Cut(piece, "=").after).text>> >>

RECURSIVE QueryPairs(_)
\* url.ParseQuery as URL.Query calls it (the error dropped): the key/value pairs
\* of a raw query in order, malformed pairs silently left out
QueryPairs(q) ==
    IF q = Str0 THEN << >>
    ELSE QueryPair(Cut(q, "&").before) \o QueryPairs(Cut(q, "&").after)

\* the values of key k among a list of pairs, in order
ValuesFor(pairs, k) ==
    [i \in 1..Len(SelectSeq(pairs, LAMBDA p : p[1] = k)) |-> SelectSeq(pairs, LAMBDA p : p[1] = k)[i][2]]

\* the url.Values holding a list of pairs: key -> its values in order of appearance
ValuesOf(pairs) == [k \in {pairs[i][1] : i \in 1..Len(pairs)} |-> ValuesFor(pairs, k)]

\* URL.Query
URLQuery(u) == ValuesOf(QueryPairs(u.rawQuery))

\* mutant of AddAll: Values.Set in place of Values.Add, the caller's values
\* replacing those the URL has for the same key
AddAllReplacing(q, extra) ==
    [k \in (DOMAIN q) \cup (DOMAIN extra) |-> IF k \in DOMAIN extra THEN extra[k] ELSE q[k]]

\* the two maps buildURL has in hand: q, which u.Query() made, and query,
\* the one of the caller
Maps(q, query) == [q |-> q, query |-> query]

\* mutant of Add: the value is added to the map of the caller
AddToCaller(maps, m, key, value) ==
    [maps EXCEPT !.query =
        (key :> ((IF key \in DOMAIN maps.query THEN maps.query[key] ELSE << >>) \o <<value>>)) @@ maps.query]

\* Values.Add on the map m of the maps: v[key] = append(v[key], value)
Add(maps, m, key, value) ==
    [maps EXCEPT ![m] = (key :> ((IF key \in DOMAIN maps[m] THEN maps[m][key] ELSE << >>) \o <<value>>)) @@ maps[m]]

RECURSIVE RangeValues(_, _, _)
\* for _, v := range vv { q.Add(k, v) }, vv being the values the key had when
\* the loop began
RangeValues(maps, key, vv) ==
    IF vv = << >> THEN maps ELSE RangeValues(Add(maps, "q", key, Head(vv)), key, Tail(vv))

RECURSIVE RangeKeys(_, _)
\* for k, vv := range query { ... } over the keys in the order keys
RangeKeys(maps, keys) ==
    IF keys = << >> THEN maps
    ELSE RangeKeys(RangeValues(maps, Head(keys), maps.query[Head(keys)]), Tail(keys))

\* client.go's two nested loops over q and the map of the caller: both maps
\* afterwards (the order of the keys, which Go leaves open, makes no
\* difference: each key has its own values)
Ranged(q, query) == RangeKeys(Maps(q, query), SortKeys(DOMAIN query))

\* q after Values.Add of every value of every key of extra: a key of extra
\* without values adds nothing, not even the key
AddAll(q, extra) == Ranged(q, extra).q

\* Values.Encode: the key=value pieces of the keys in the given order
EncodeParts(v, keys) ==
    Flatten([i \in 1..Len(keys) |->
        [j \in 1..Len(v[keys[i]]) |-> QueryEscape(keys[i]) \o <<"=">> \o QueryEscape(v[keys[i]][j])]])

\* strings.Join(parts, "&")
JoinAmp(parts) == Flatten([i \in 1..Len(parts) |-> IF i = 1 THEN parts[i] ELSE <<"&">> \o parts[i]])

\* Values.Encode: keys sorted, each value as key=value, joined by '&'
Encode(v) == JoinAmp(EncodeParts(v, SortKeys(DOMAIN v)))

\* -------------------------------------------------------- errors, client

\* Go's nil error
NoErr == [kind |-> "nil"]

\* fmt.Errorf("<msg>: %w", cause): an error wrapping its cause
Wrap(msg, cause) == [kind |-> "wrapped", msg |-> msg, cause |-> cause]

\* "https://api.bitbucket.org/2.0"
DefaultBaseURL ==
    HTTPS \o <<"a", "p", "i", ".", "b", "i", "t", "b", "u", "c", "k", "e", "t", ".",
               "o", "r", "g", "/", "2", ".", "0">>

\* "bb-cli/dev"
defaultUserAgent == <<"b", "b", "-", "c", "l", "i", "/", "d", "e", "v">>

\* NewClientWithUser
NewClientWithUser(baseURL, username, token) ==
    [baseURL |-> TrimRight(IF TrimSpace(baseURL) = Str0 THEN DefaultBaseURL ELSE baseURL, "/"),
     token |-> token,
     username |-> TrimSpace(username),
     userAgent |-> defaultUserAgent]

\* NewClient
NewClient(baseURL, token) == NewClientWithUser(baseURL, Str0, token)

\* len(query) of a url.Values
LenValues(query) == Cardinality(DOMAIN query)

\* u with RawQuery replaced by the encoding of its own query plus the caller's
\* (q := u.Query(); q.Add(k, v) for all k, v; u.RawQuery = q.Encode())
MergeQuery(u, query) == [u EXCEPT !.rawQuery = Encode(AddAll(URLQuery(u), query))]

\* mutant of RelativePath: the slash is put in front of every path
RelativePathAlwaysSlash(path) == SLASH \o TrimSpace(path)

\* the path buildURL appends to the base: trimmed, with a slash put in front
\* unless it already starts with one
RelativePath(path) ==
    IF ~HasPrefix(TrimSpace(path), SLASH) THEN SLASH \o TrimSpace(path) ELSE TrimSpace(path)

\* buildURL after url.Parse: the parse error wrapped, or the URL as text, the
\* caller's query merged into it when merge is set
Built(u, msg, merge, query) ==
    IF u.err # "" THEN [url |-> Str0, err |-> Wrap(msg, u.err)]
    ELSE [url |-> URLString(IF merge THEN MergeQuery(u, query) ELSE u), err |-> NoErr]

\* Client.buildURL: [url, err]
BuildURL(c, path, query) ==
    IF HasPrefix(path, HTTP) \/ HasPrefix(path, HTTPS)
    THEN Built(ParseURL(path), "parse absolute URL", LenValues(query) > 0, query)
    ELSE Built(ParseURL(TrimRight(c.baseURL, "/") \o RelativePath(path)), "parse URL",
               ~(LenValues(query) = 0), query)

\* ------------------------------------------------------ bounds and inputs

\* most pages the listing of the server has
MaxPages == 2
\* most records a page carries
MaxVals == 2
\* most HTTP requests one call may issue (caps the walk of a cyclic listing)
MaxRequests == 3
\* most slashes at the end of a base URL or in front of a path
MaxSlashes == 2

\* http.StatusBadRequest
StatusBadRequest == 400
\* the cap DoJSON puts on the error body it reads: io.LimitReader(resp.Body, 4*1024)
ErrorBodyLimit == 4 * 1024

\* n copies of the byte c
Rep(c, n) == [i \in 1..n |-> c]

\* the decimal digit of a page number
Digit(i) == Bytes[Ord("0") + i + 1]

\* the host the model's server listens on, and the client's usual base URL
ServerURL == HTTP \o <<"h">>
BaseURL == ServerURL \o <<"/", "v">>

\* the URL the server names as the link to page i of the listing: the
\* resource itself for the first page, the resource with the page for the others
PageURL(i) == IF i = 1 THEN BaseURL \o <<"/", "r">> ELSE BaseURL \o <<"/", "r", "?", "p", "=", Digit(i)>>

\* url.Values literals
NoQuery == << >>
QueryK == (<<"k">> :> << <<"u">> >>)
QueryKP == (<<"k">> :> << <<"v">> >>) @@ (<<"p">> :> << <<"u">>, <<"w">> >>)
QueryEmptyList == (<<"k">> :> << >>)

\* the url.Values of the caller after buildURL: as given when url.Parse fails
\* or the caller has none, else what the two loops leave of it
QueryAfter(u, merge, query) == IF u.err # "" \/ ~merge THEN query ELSE Ranged(URLQuery(u), query).query

\* the url.Values of the caller after Client.buildURL
RangedQuery(c, path, query) ==
    IF HasPrefix(path, HTTP) \/ HasPrefix(path, HTTPS)
    THEN QueryAfter(ParseURL(path), LenValues(query) > 0, query)
    ELSE QueryAfter(ParseURL(TrimRight(c.baseURL, "/") \o RelativePath(path)), ~(LenValues(query) = 0), query)

\* ------------------------------------------------------ the remote server

\* response bodies are runs of bytes, [ws |-> is whitespace, n |-> how many],
\* with what the bytes are as JSON: "invalid" (not JSON), "array" (JSON, not an
\* object), or an object carrying values and next
Run(ws, n) == [ws |-> ws, n |-> n]
TextBody(runs) == [runs |-> runs, json |-> "invalid", values |-> << >>, next |-> Str0]
ArrayBody == [runs |-> <<Run(FALSE, 2)>>, json |-> "array", values |-> << >>, next |-> Str0]
PageBody(values, next) ==
    [runs |-> <<Run(FALSE, 20 + Len(values) + Len(next)), Run(TRUE, 1)>>,
     json |-> "object", values |-> values, next |-> next]

\* number of bytes of a body
RECURSIVE RunsLen(_)
RunsLen(runs) == IF runs = << >> THEN 0 ELSE Head(runs).n + RunsLen(Tail(runs))

\* the j-th record of page i: an opaque JSON value
Record(i, j) == 10 * i + j

\* the listing a server holds: lens[i] records on page i; the last page links to
\* nothing (loopTo = 0) or back to page loopTo
Listing(lens, loopTo) ==
    [i \in 1..Len(lens) |->
        [values |-> [j \in 1..lens[i] |-> Record(i, j)],
         next |-> IF i < Len(lens) THEN PageURL(i + 1)
                  ELSE IF loopTo = 0 THEN Str0 ELSE PageURL(loopTo)]]

\* the page a parsed request URL names, r.URL.Query().Get of the page
\* parameter: its first value, the empty text without one
PageParam(q) == IF <<"p">> \in DOMAIN q /\ q[<<"p">>] # << >> THEN q[<<"p">>][1] ELSE Str0

\* path texts of the commands
REPOSITORIES == <<"/", "r", "e", "p", "o", "s", "i", "t", "o", "r", "i", "e", "s", "/">>
PULLREQUESTS == <<"/", "p", "u", "l", "l", "r", "e", "q", "u", "e", "s", "t", "s">>
PIPELINES == <<"/", "p", "i", "p", "e", "l", "i", "n", "e", "s">>
ISSUES == <<"/", "i", "s", "s", "u", "e", "s">>

\* where the server has its listing: the resource of the client's tests, the
\* repositories of workspace r, and the pull requests, pipelines and issues of
\* its repository s, with issue 1
Resources ==
    {BaseURL \o <<"/", "r">>, ServerURL \o REPOSITORIES \o <<"r">>}
        \cup {ServerURL \o REPOSITORIES \o <<"r", "/", "s">> \o p :
                 p \in {PULLREQUESTS, PIPELINES, ISSUES, ISSUES \o <<"/", "1">>}}

\* the page a parsed request URL asks for: the first page of the listing
\* resource for an empty page parameter, page i for the parameter i of a later
\* page, 0 for anything else
RoutePage(listing, u, p) ==
    IF u.err # "" \/ u.scheme \o <<":", "/", "/">> \o u.host \o u.path \notin Resources THEN 0
    ELSE IF p = Str0 THEN 1
    ELSE IF \E i \in 2..Len(listing) : p = <<Digit(i)>>
    THEN CHOOSE i \in 2..Len(listing) : p = <<Digit(i)>>
    ELSE 0

RouteURL(listing, u) == RoutePage(listing, u, PageParam(URLQuery(u)))

\* the page a request URL asks for (the handler of the test server)
Route(listing, url) == RouteURL(listing, ParseURL(url))

\* "404 page not found\n"
NotFoundBody == TextBody(<<Run(FALSE, 3), Run(TRUE, 1), Run(FALSE, 4), Run(TRUE, 1), Run(FALSE, 3), Run(TRUE, 1), Run(FALSE, 5), Run(TRUE, 1)>>)

\* the answer of a healthy server for page i, 404 for page 0
ServedPage(listing, i) ==
    IF i = 0 THEN [status |-> 404, body |-> NotFoundBody]
    ELSE [status |-> 200, body |-> PageBody(listing[i].values, listing[i].next)]

\* what a healthy server answers to a request for url
Served(listing, url) == ServedPage(listing, Route(listing, url))

\* bodies of failure responses: none; "bad request\n"; one whose 4096th byte is
\* whitespace after 4094 bytes of text; one of 5000 bytes of text
ErrorBodies ==
    { TextBody(<< >>),
      TextBody(<<Run(FALSE, 3), Run(TRUE, 1), Run(FALSE, 7), Run(TRUE, 1)>>),
      TextBody(<<Run(TRUE, 1), Run(FALSE, ErrorBodyLimit - 2), Run(TRUE, 1), Run(FALSE, 100)>>),
      TextBody(<<Run(FALSE, ErrorBodyLimit + 904)>>) }

\* responses of a server that reports failure
FailureResponses ==
    {[status |-> StatusBadRequest, body |-> b] : b \in ErrorBodies}
        \cup {[status |-> 500, body |-> TextBody(<< >>)], [status |-> 401, body |-> PageBody(<< >>, Str0)]}

\* responses that report success with a body that is no listing page: "{invalid",
\* no body at all, whitespace only, a JSON array
OddResponses ==
    { [status |-> 200, body |-> TextBody(<<Run(FALSE, 8)>>)],
      [status |-> 204, body |-> TextBody(<< >>)],
      [status |-> 399, body |-> TextBody(<<Run(TRUE, 2)>>)],
      [status |-> 200, body |-> ArrayBody] }

\* causes of a failed httpClient.Do
TransportCauses == {"connection refused", "context canceled"}

\* ------------------------------------------------------------- Request

\* header values
Absent == [set |-> FALSE, scheme |-> "", param |-> Str0]
Header(scheme, param) == [set |-> TRUE, scheme |-> scheme, param |-> param]
ApplicationJSON == Header("application/json", Str0)

\* mutant of Authorization: the username decides first, whether or not there is a token
AuthorizationUsernameFirst(c) ==
    IF c.username # Str0 THEN Header("Basic", c.username \o <<":">> \o c.token)
    ELSE IF c.token # Str0 THEN Header("Bearer", c.token)
    ELSE Absent

\* the Authorization header Request sets: SetBasicAuth(username, token) sends the
\* base64 of "username:token" (param is the text that is encoded); otherwise
\* "Bearer " + token; nothing without a token
Authorization(c) ==
    IF c.token # Str0
    THEN IF c.username # Str0
         THEN Header("Basic", c.username \o <<":">> \o c.token)
         ELSE Header("Bearer", c.token)
    ELSE Absent

\* mutant of ContentType: the header set on every request
ContentTypeAlways(hasBody) == ApplicationJSON

\* the Content-Type header Request sets
ContentType(hasBody) == IF hasBody THEN ApplicationJSON ELSE Absent

\* validMethod of net/http: of the methods of the model only "B D", which has a
\* space in it, is no token
ValidMethod(method) == method # "B D"

NoReq == [method |-> "", url |-> Str0, accept |-> Absent, userAgent |-> Str0,
          authorization |-> Absent, contentType |-> Absent]

\* mutant of RequestFor: the Authorization header only on requests to the base URL
RequestForBaseOnly(c, method, target, hasBody) ==
    IF target.err # NoErr THEN [req |-> NoReq, err |-> target.err]
    ELSE IF ~ValidMethod(method)
    THEN [req |-> NoReq, err |-> Wrap("build request", "invalid method")]
    ELSE [req |-> [method |-> method, url |-> target.url, accept |-> ApplicationJSON,
                   userAgent |-> c.userAgent,
                   authorization |-> IF HasPrefix(target.url, c.baseURL) THEN Authorization(c) ELSE Absent,
                   contentType |-> ContentType(hasBody)],
          err |-> NoErr]

\* Request after buildURL: the request it is about to hand to httpClient.Do, or
\* the error it returns without sending anything
RequestFor(c, method, target, hasBody) ==
    IF target.err # NoErr THEN [req |-> NoReq, err |-> target.err]
    ELSE IF ~ValidMethod(method)
    THEN [req |-> NoReq, err |-> Wrap("build request", "invalid method")]
    ELSE [req |-> [method |-> method, url |-> target.url, accept |-> ApplicationJSON,
                   userAgent |-> c.userAgent, authorization |-> Authorization(c),
                   contentType |-> ContentType(hasBody)],
          err |-> NoErr]

NoResp == [status |-> 0, body |-> TextBody(<< >>)]

\* mutant of RequestReturn: the error of httpClient.Do replaced by a message of its own
RequestReturnWithoutCause(cause, resp) ==
    IF cause # "" THEN [resp |-> NoResp, err |-> Wrap("execute request", "failed"), responded |-> FALSE]
    ELSE [resp |-> resp, err |-> NoErr, responded |-> TRUE]

\* what Request returns after httpClient.Do: the response, or the wrapped cause
RequestReturn(cause, resp) ==
    IF cause # "" THEN [resp |-> NoResp, err |-> Wrap("execute request", cause), responded |-> FALSE]
    ELSE [resp |-> resp, err |-> NoErr, responded |-> TRUE]

\* -------------------------------------------------------------- DoJSON

RECURSIVE LimitRead(_, _)
\* io.ReadAll(io.LimitReader(body, limit)): the first limit bytes
LimitRead(runs, limit) ==
    IF runs = << >> \/ limit <= 0 THEN << >>
    ELSE IF Head(runs).n >= limit THEN <<Run(Head(runs).ws, limit)>>
    ELSE <<Head(runs)>> \o LimitRead(Tail(runs), limit - Head(runs).n)

\* strings.TrimSpace on runs of bytes
TrimSpaceRuns(runs) ==
    LET keep == {i \in 1..Len(runs) : ~runs[i].ws /\ runs[i].n > 0}
        first == IF keep = {} THEN 1 ELSE CHOOSE i \in keep : \A j \in keep : i <= j
        last == IF keep = {} THEN 0 ELSE CHOOSE i \in keep : \A j \in keep : j <= i
    IN  SubSeq(runs, first, last)

\* &APIError{StatusCode, Body}
APIError(status, body) == [kind |-> "APIError", status |-> status, body |-> body]

\* the value an output target holds before anything is decoded into it
Unwritten == [written |-> FALSE, values |-> << >>, next |-> Str0]

\* mutant of Decode: a body without a JSON value leaves the target as it is, without error
DecodeEmptyAsNothing(body, target) ==
    IF TrimSpaceRuns(body.runs) = << >> THEN [err |-> "", out |-> Unwritten]
    ELSE IF body.json = "invalid" THEN [err |-> "invalid character", out |-> Unwritten]
    ELSE IF body.json = "array" /\ target = "list"
    THEN [err |-> "cannot unmarshal array", out |-> Unwritten]
    ELSE [err |-> "", out |-> [written |-> TRUE, values |-> body.values, next |-> body.next]]

\* json.NewDecoder(body).Decode(out) for out a *listResponse ("list") or a
\* pointer to an untyped value ("any"): [err, out]
Decode(body, target) ==
    IF TrimSpaceRuns(body.runs) = << >> THEN [err |-> "EOF", out |-> Unwritten]
    ELSE IF body.json = "invalid" THEN [err |-> "invalid character", out |-> Unwritten]
    ELSE IF body.json = "array" /\ target = "list"
    THEN [err |-> "cannot unmarshal array", out |-> Unwritten]
    ELSE [err |-> "", out |-> [written |-> TRUE, values |-> body.values, next |-> body.next]]

\* mutant of Decoded: the error of the decoder returned as it is
DecodedBare(d) ==
    IF d.err # "" THEN [err |-> [kind |-> "json", msg |-> d.err, cause |-> ""], out |-> d.out, closes |-> 1]
    ELSE [err |-> NoErr, out |-> d.out, closes |-> 1]

\* mutant of Decoded: a body that does not decode reported as a failure of the server
DecodedAsAPIError(d) ==
    IF d.err # "" THEN [err |-> APIError(200, << >>), out |-> d.out, closes |-> 1]
    ELSE [err |-> NoErr, out |-> d.out, closes |-> 1]

\* DoJSON after the decoder has returned d
Decoded(d) ==
    IF d.err # "" THEN [err |-> Wrap("decode response", d.err), out |-> d.out, closes |-> 1]
    ELSE [err |-> NoErr, out |-> d.out, closes |-> 1]

\* mutant of DoJSON: the body is decoded also when there is no output target
DoJSONDecodingAlways(ret, target) ==
    IF ret.err # NoErr THEN [err |-> ret.err, out |-> Unwritten, closes |-> 0]
    ELSE IF ret.resp.status >= StatusBadRequest
    THEN [err |-> APIError(ret.resp.status, TrimSpaceRuns(LimitRead(ret.resp.body.runs, ErrorBodyLimit))),
          out |-> Unwritten, closes |-> 1]
    ELSE Decoded(Decode(ret.resp.body, target))

\* mutant of DoJSON: the return on a failure status skips the close of the body
DoJSONLeaksOnAPIError(ret, target) ==
    IF ret.err # NoErr THEN [err |-> ret.err, out |-> Unwritten, closes |-> 0]
    ELSE IF ret.resp.status >= StatusBadRequest
    THEN [err |-> APIError(ret.resp.status, TrimSpaceRuns(LimitRead(ret.resp.body.runs, ErrorBodyLimit))),
          out |-> Unwritten, closes |-> 0]
    ELSE IF target = "none" THEN [err |-> NoErr, out |-> Unwritten, closes |-> 1]
    ELSE Decoded(Decode(ret.resp.body, target))

\* mutant of DoJSON: only a status above 400 counts as a failure
DoJSONAboveBadRequest(ret, target) ==
    IF ret.err # NoErr THEN [err |-> ret.err, out |-> Unwritten, closes |-> 0]
    ELSE IF ret.resp.status > StatusBadRequest
    THEN [err |-> APIError(ret.resp.status, TrimSpaceRuns(LimitRead(ret.resp.body.runs, ErrorBodyLimit))),
          out |-> Unwritten, closes |-> 1]
    ELSE IF target = "none" THEN [err |-> NoErr, out |-> Unwritten, closes |-> 1]
    ELSE Decoded(Decode(ret.resp.body, target))

\* DoJSON after Request has returned ret: the error it returns, what it leaves
\* in the output target, and how often it closed the response body
DoJSON(ret, target) ==
    IF ret.err # NoErr THEN [err |-> ret.err, out |-> Unwritten, closes |-> 0]
    ELSE IF ret.resp.status >= StatusBadRequest
    THEN [err |-> APIError(ret.resp.status, TrimSpaceRuns(LimitRead(ret.resp.body.runs, ErrorBodyLimit))),
          out |-> Unwritten, closes |-> 1]
    ELSE IF target = "none" THEN [err |-> NoErr, out |-> Unwritten, closes |-> 1]
    ELSE Decoded(Decode(ret.resp.body, target))

\* -------------------------------------------------------- GetAllValues

\* mutant of AppendValues: the new page put in front of the pages already fetched
AppendValuesInFront(all, values) == values \o all

\* all = append(all, page.Values...)
AppendValues(all, values) == all \o values

\* mutant of PageCall: the loop asks for the first page whatever the link
PageCallFirstPage(next, currentQuery) ==
    [method |-> "GET", path |-> <<"/", "r">>, query |-> currentQuery, hasBody |-> FALSE, target |-> "list"]

\* the DoJSON call of the loop body: GET next with currentQuery into a listResponse
PageCall(next, currentQuery) ==
    [method |-> "GET", path |-> next, query |-> currentQuery, hasBody |-> FALSE, target |-> "list"]

\* mutant of FailValues: the values fetched so far returned with the error
FailValuesPartial(all) == all

\* what GetAllValues returns when DoJSON fails
FailValues(all) == << >>

\* ------------------------------------------------------------ the state

VARIABLES
    config,         \* the arguments the client was constructed with: baseURL, username, token
    client,         \* the Client: baseURL, token, username, userAgent
    listing,        \* the pages the remote server holds
    pc,             \* "idle": no call runs; "request": Request is about to run;
                    \* "response": Request has returned to DoJSON
    op,             \* the call in progress or last made: name, path, query
    dj,             \* arguments of the running DoJSON/Request: method, path, query, hasBody, target
    next,           \* GetAllValues: next
    currentQuery,   \* GetAllValues: currentQuery
    all,            \* GetAllValues: all
    ret,            \* what the last Request returned: resp, err, responded
    djret,          \* what the last DoJSON returned: err (kind "none" before it returns)
    out,            \* the output target of the last DoJSON
    calls,          \* how often Request has run during the call
    log,            \* the requests handed to httpClient.Do during the call, in order, each
                    \* with the cause of its failure or the response that came, and how
                    \* often the body of that response was closed
    result,         \* what the call returned: values, err
    built,          \* the last buildURL call: its arguments, what it returned, the query after it
    cli             \* the command line process around the client: what it was started
                    \* with and what it has written (NoCLI where the client is used alone)

vars == <<config, client, listing, pc, op, dj, next, currentQuery, all, ret, djret, out, calls, log,
          result, built, cli>>

NoRet == [resp |-> NoResp, err |-> NoErr, responded |-> FALSE]
NoDJ == [kind |-> "none"]
NoCall == [method |-> "", path |-> Str0, query |-> NoQuery, hasBody |-> FALSE, target |-> "none"]
NoResult == [returned |-> FALSE, values |-> << >>, err |-> NoErr]
NoBuilt ==
    [called |-> FALSE, path |-> Str0, query |-> NoQuery, url |-> Str0, err |-> NoErr, after |-> NoQuery]
NoCLI == [phase |-> "none"]
Returned(values, err) == [returned |-> TRUE, values |-> values, err |-> err]

\* construction arguments
Config(baseURL, username, token) == [baseURL |-> baseURL, username |-> username, token |-> token]

\* the client a configuration gives
ClientOf(cfg) == NewClientWithUser(cfg.baseURL, cfg.username, cfg.token)

\* the configuration of the repository's tests: a base URL (here with a trailing
\* slash) and a token, no username
TestConfig == Config(BaseURL \o SLASH, Str0, <<"t">>)

\* the listing of TestGetAllValuesFollowsNextLinks, with two records on page 1
TestListing == Listing(<<2, 1>>, 0)

\* configurations over every kind of username and token
Configs ==
    {Config(BaseURL \o SLASH, u, t) :
        u \in {Str0, <<"u">>, <<" ">>, <<" ", "u", " ">>}, t \in {Str0, <<"t">>}}

\* a listing whose only page links to a URL url.Parse rejects
BrokenLinkListing == <<[values |-> <<Record(1, 1)>>, next |-> ServerURL \o <<"/", "%">>]>>

\* listings of up to MaxPages pages of up to MaxVals records, ending or cyclic,
\* and the one with the broken link
Listings ==
    UNION {{Listing(lens, loopTo) : lens \in [1..n -> 0..MaxVals], loopTo \in 0..n} : n \in 1..MaxPages}
        \cup {BrokenLinkListing}

\* paths handed to GetAllValues: the listing (with and without its slash, and with
\* spaces around), nothing, an unknown resource, a path url.Parse rejects, the
\* absolute link of page 2
ListPaths ==
    {<<"/", "r">>, <<"r">>, <<" ", "/", "r", " ">>, Str0, <<"/", "x">>, <<"/", "%">>, PageURL(2)}

\* arguments of direct DoJSON and Request calls: method, path, query, hasBody
DirectCalls ==
    { <<"GET", <<"/", "r">>, NoQuery, FALSE>>,
      <<"GET", <<"r">>, QueryK, FALSE>>,
      <<"POST", <<"/", "r">>, NoQuery, TRUE>>,
      <<"PUT", PageURL(2), QueryK, TRUE>>,
      <<"GET", PageURL(2), QueryKP, FALSE>>,
      <<"B D", <<"/", "r">>, NoQuery, FALSE>>,
      <<"GET", <<"/", "%">>, NoQuery, FALSE>> }

\* no call has been made
Idle ==
    /\ pc = "idle"
    /\ op = [name |-> "none", path |-> Str0, query |-> NoQuery]
    /\ dj = NoCall
    /\ next = Str0
    /\ currentQuery = NoQuery
    /\ all = << >>
    /\ ret = NoRet
    /\ djret = NoDJ
    /\ out = Unwritten
    /\ calls = 0
    /\ log = << >>
    /\ result = NoResult
    /\ built = NoBuilt

\* a client over every listing, and every client over one listing
Init ==
    /\ \E w \in ({TestConfig} \X Listings) \cup (Configs \X {TestListing}) :
        /\ config = w[1]
        /\ client = ClientOf(w[1])
        /\ listing = w[2]
    /\ Idle
    /\ cli = NoCLI

\* a call starts with nothing sent, returned or decoded
Fresh ==
    /\ ret' = NoRet
    /\ djret' = NoDJ
    /\ out' = Unwritten
    /\ log' = << >>
    /\ built' = NoBuilt
    /\ calls' = 0

\* mutant of CallGetAllValues: the loop body runs once before next is tested
CallGetAllValuesFetchingFirst(path, query) ==
    /\ pc = "idle"
    /\ op' = [name |-> "GetAllValues", path |-> path, query |-> query]
    /\ next' = path
    /\ currentQuery' = query
    /\ all' = << >>
    /\ Fresh
    /\ dj' = PageCall(path, query)
    /\ pc' = "request"
    /\ result' = NoResult

\* GetAllValues(ctx, path, query) up to its first DoJSON call, or its return
\* when the loop is not entered
CallGetAllValues(path, query) ==
    /\ pc = "idle"
    /\ op' = [name |-> "GetAllValues", path |-> path, query |-> query]
    /\ next' = path
    /\ currentQuery' = query
    /\ all' = << >>
    /\ Fresh
    /\ IF path # Str0
       THEN /\ dj' = PageCall(path, query)
            /\ pc' = "request"
            /\ result' = NoResult
       ELSE /\ dj' = NoCall
            /\ pc' = "idle"
            /\ result' = Returned(<< >>, NoErr)

\* DoJSON(ctx, method, path, query, body, out) up to its call of Request
CallDoJSON(method, path, query, hasBody, target) ==
    /\ pc = "idle"
    /\ op' = [name |-> "DoJSON", path |-> path, query |-> query]
    /\ dj' = [method |-> method, path |-> path, query |-> query, hasBody |-> hasBody, target |-> target]
    /\ pc' = "request"
    /\ result' = NoResult
    /\ next' = Str0
    /\ currentQuery' = NoQuery
    /\ all' = << >>
    /\ Fresh

\* Request(ctx, method, path, query, body) called by the CLI itself
CallRequest(method, path, query, hasBody) ==
    /\ pc = "idle"
    /\ op' = [name |-> "Request", path |-> path, query |-> query]
    /\ dj' = [method |-> method, path |-> path, query |-> query, hasBody |-> hasBody, target |-> "none"]
    /\ pc' = "request"
    /\ result' = NoResult
    /\ next' = Str0
    /\ currentQuery' = NoQuery
    /\ all' = << >>
    /\ Fresh

\* the outcomes of httpClient.Do for a request: a transport failure with its
\* cause, or a response: the answer of a healthy server, a failure response, or a
\* success that is no page
Outcomes(url) ==
    {[cause |-> c, resp |-> NoResp] : c \in TransportCauses}
        \cup {[cause |-> "", resp |-> r] : r \in {Served(listing, url)} \cup FailureResponses \cup OddResponses}

\* where Request returns to: its caller DoJSON, or the CLI
AfterRequest == IF op.name = "Request" THEN "idle" ELSE "response"

\* Request from buildURL's return on: r is the request to send or the error
Send(target, r) ==
    /\ built' = [called |-> TRUE, path |-> dj.path, query |-> dj.query,
                 url |-> target.url, err |-> target.err, after |-> RangedQuery(client, dj.path, dj.query)]
    /\ IF r.err # NoErr
       THEN /\ ret' = [resp |-> NoResp, err |-> r.err, responded |-> FALSE]
            /\ log' = log
       ELSE /\ Len(log) < MaxRequests
            /\ \E x \in Outcomes(r.req.url) :
                 /\ ret' = RequestReturn(x.cause, x.resp)
                 /\ log' = Append(log, [req |-> r.req, cause |-> x.cause, resp |-> x.resp, closes |-> 0])

Prepare(target) == Send(target, RequestFor(client, dj.method, target, dj.hasBody))

\* Request: builds the URL and the request; returns the error if that fails,
\* and otherwise sends the request and returns what httpClient.Do gives
Request ==
    /\ pc = "request"
    /\ Prepare(BuildURL(client, dj.path, dj.query))
    /\ pc' = AfterRequest
    /\ calls' = calls + 1
    /\ result' = IF op.name = "Request" THEN Returned(<< >>, ret'.err) ELSE result
    /\ UNCHANGED <<config, client, listing, op, dj, next, currentQuery, all, djret, out, cli>>

\* the log after DoJSON has closed the body of the last response n times
CloseLast(l, n) ==
    IF l = << >> \/ n = 0 THEN l ELSE [l EXCEPT ![Len(l)].closes = @ + n]

\* mutant of Resume: a next link that was asked for before ends the listing
ResumeStoppingAtCycle(d) ==
    /\ djret' = d.err
    /\ out' = d.out
    /\ log' = CloseLast(log, d.closes)
    /\ IF op.name = "DoJSON"
       THEN /\ result' = Returned(<< >>, d.err)
            /\ pc' = "idle"
            /\ UNCHANGED <<dj, next, currentQuery, all>>
       ELSE IF d.err # NoErr
       THEN /\ result' = Returned(FailValues(all), d.err)
            /\ pc' = "idle"
            /\ UNCHANGED <<dj, next, currentQuery, all>>
       ELSE /\ all' = AppendValues(all, d.out.values)
            /\ next' = d.out.next
            /\ currentQuery' = NoQuery
            /\ IF d.out.next # Str0 /\ ~(\E i \in 1..Len(log) : log[i].req.url = d.out.next)
               THEN /\ dj' = PageCall(d.out.next, NoQuery)
                    /\ pc' = "request"
                    /\ result' = result
               ELSE /\ dj' = dj
                    /\ pc' = "idle"
                    /\ result' = Returned(all', NoErr)

\* mutant of Resume: a next link that is no URL ends the listing like an empty one
ResumeDroppingBadLink(d) ==
    /\ djret' = d.err
    /\ out' = d.out
    /\ log' = CloseLast(log, d.closes)
    /\ IF op.name = "DoJSON"
       THEN /\ result' = Returned(<< >>, d.err)
            /\ pc' = "idle"
            /\ UNCHANGED <<dj, next, currentQuery, all>>
       ELSE IF d.err # NoErr
       THEN /\ result' = Returned(FailValues(all), d.err)
            /\ pc' = "idle"
            /\ UNCHANGED <<dj, next, currentQuery, all>>
       ELSE /\ all' = AppendValues(all, d.out.values)
            /\ next' = d.out.next
            /\ currentQuery' = NoQuery
            /\ IF d.out.next # Str0 /\ BuildURL(client, d.out.next, NoQuery).err = NoErr
               THEN /\ dj' = PageCall(d.out.next, NoQuery)
                    /\ pc' = "request"
                    /\ result' = result
               ELSE /\ dj' = dj
                    /\ pc' = "idle"
                    /\ result' = Returned(all', NoErr)

\* mutant of Resume: the query of the caller kept for the pages that follow
ResumeKeepingQuery(d) ==
    /\ djret' = d.err
    /\ out' = d.out
    /\ log' = CloseLast(log, d.closes)
    /\ IF op.name = "DoJSON"
       THEN /\ result' = Returned(<< >>, d.err)
            /\ pc' = "idle"
            /\ UNCHANGED <<dj, next, currentQuery, all>>
       ELSE IF d.err # NoErr
       THEN /\ result' = Returned(FailValues(all), d.err)
            /\ pc' = "idle"
            /\ UNCHANGED <<dj, next, currentQuery, all>>
       ELSE /\ all' = AppendValues(all, d.out.values)
            /\ next' = d.out.next
            /\ currentQuery' = currentQuery
            /\ IF d.out.next # Str0
               THEN /\ dj' = PageCall(d.out.next, currentQuery)
                    /\ pc' = "request"
                    /\ result' = result
               ELSE /\ dj' = dj
                    /\ pc' = "idle"
                    /\ result' = Returned(all', NoErr)

\* mutant of Resume: a failed DoJSON call is made again
ResumeRetrying(d) ==
    /\ djret' = d.err
    /\ out' = d.out
    /\ log' = CloseLast(log, d.closes)
    /\ IF d.err # NoErr
       THEN /\ pc' = "request"
            /\ result' = result
            /\ UNCHANGED <<dj, next, currentQuery, all>>
       ELSE IF op.name = "DoJSON"
       THEN /\ result' = Returned(<< >>, d.err)
            /\ pc' = "idle"
            /\ UNCHANGED <<dj, next, currentQuery, all>>
       ELSE /\ all' = AppendValues(all, d.out.values)
            /\ next' = d.out.next
            /\ currentQuery' = NoQuery
            /\ IF d.out.next # Str0
               THEN /\ dj' = PageCall(d.out.next, NoQuery)
                    /\ pc' = "request"
                    /\ result' = result
               ELSE /\ dj' = dj
                    /\ pc' = "idle"
                    /\ result' = Returned(all', NoErr)

\* DoJSON has returned d: its caller takes over, the CLI or the loop of GetAllValues
Resume(d) ==
    /\ djret' = d.err
    /\ out' = d.out
    /\ log' = CloseLast(log, d.closes)
    /\ IF op.name = "DoJSON"
       THEN /\ result' = Returned(<< >>, d.err)
            /\ pc' = "idle"
            /\ UNCHANGED <<dj, next, currentQuery, all>>
       ELSE IF d.err # NoErr
       THEN /\ result' = Returned(FailValues(all), d.err)
            /\ pc' = "idle"
            /\ UNCHANGED <<dj, next, currentQuery, all>>
       ELSE /\ all' = AppendValues(all, d.out.values)
            /\ next' = d.out.next
            /\ currentQuery' = NoQuery
            /\ IF d.out.next # Str0
               THEN /\ dj' = PageCall(d.out.next, NoQuery)
                    /\ pc' = "request"
                    /\ result' = result
               ELSE /\ dj' = dj
                    /\ pc' = "idle"
                    /\ result' = Returned(all', NoErr)

\* DoJSON from the return of Request to its own return, and, inside
\* GetAllValues, the rest of the loop body up to the next DoJSON call or the return
DoJSONReturn ==
    /\ pc = "response"
    /\ Resume(DoJSON(ret, dj.target))
    /\ UNCHANGED <<config, client, listing, op, ret, built, calls, cli>>

\* the caller of Request closes the body of the response it was given
CloseBody ==
    /\ pc = "idle"
    /\ op.name = "Request"
    /\ ret.responded
    /\ log # << >>
    /\ log[Len(log)].closes = 0
    /\ log' = CloseLast(log, 1)
    /\ UNCHANGED <<config, client, listing, pc, op, dj, next, currentQuery, all, ret, djret, out,
                   calls, result, built, cli>>

\* the client used alone: a call made on the client as constructed
Direct(call) == call /\ UNCHANGED <<config, client, listing, cli>>

Next ==
    \/ \E path \in ListPaths, query \in {NoQuery, QueryK} : Direct(CallGetAllValues(path, query))
    \/ \E c \in DirectCalls, target \in {"none", "list", "any"} :
         Direct(CallDoJSON(c[1], c[2], c[3], c[4], target))
    \/ \E c \in DirectCalls : Direct(CallRequest(c[1], c[2], c[3], c[4]))
    \/ Request
    \/ DoJSONReturn
    \/ CloseBody

Spec == Init /\ [][Next]_vars

\* a URL on a host other than the one of the base URL
ForeignURL == HTTP \o <<"g", "/", "r">>

\* a listing whose only page links to that host
ForeignLinkListing == <<[values |-> <<Record(1, 1)>>, next |-> ForeignURL]>>

\* a configuration with a username, the token sent as Basic credentials
BasicConfig == Config(BaseURL \o SLASH, <<"u">>, <<"t">>)

\* two pages, the link to the second with its page number escaped (%32 for 2)
EscapedLinkListing ==
    <<[values |-> <<Record(1, 1)>>, next |-> BaseURL \o <<"/", "r", "?", "p", "=", "%", "3", "2">>],
      [values |-> <<Record(2, 1)>>, next |-> Str0]>>

\* listings for the runs of GetAllValues to its end: one page, the two pages of
\* the tests, a first page without records, two pages linked in a circle, the
\* one with the broken link, the one with the link to another host and the
\* one with the escaped link
LiveListings ==
    {Listing(<<1>>, 0), TestListing, Listing(<<0, 1>>, 0), Listing(<<1, 1>>, 1), BrokenLinkListing,
     ForeignLinkListing, EscapedLinkListing}

\* paths of those runs: the listing, the listing with an empty page or with
\* page 1, nothing, the link of page 2, an unknown resource, a path url.Parse
\* rejects, a URL on another host
LivePaths ==
    {<<"/", "r">>, <<"/", "r", "?", "p", "=">>, <<"/", "r", "?", "p", "=", "1">>, Str0, PageURL(2),
     <<"/", "x">>, <<"/", "%">>, ForeignURL}

InitLive ==
    /\ config \in {TestConfig, BasicConfig}
    /\ client = ClientOf(config)
    /\ listing \in LiveListings
    /\ Idle
    /\ cli = NoCLI

NextLive ==
    \/ \E path \in LivePaths, query \in {NoQuery, QueryK} : Direct(CallGetAllValues(path, query))
    \/ Request
    \/ DoJSONReturn

\* the step Request takes inside DoJSON, told by where it leaves the call; it is
\* the only step out of "request", and it can be taken while the transport
\* accepts requests
RequestReturns == pc = "request" /\ Len(log) < MaxRequests /\ pc' = "response"

\* GetAllValues run to its end: every step of a running call is taken in the
\* end, Request returning (httpClient.Do gives a response or an error) and
\* DoJSON and the loop running on, the code being one sequential thread
Fairness == WF_pc(RequestReturns) /\ WF_vars(DoJSONReturn)
SpecLive == InitLive /\ [][NextLive]_vars /\ Fairness

\* ------------------------------------------- buildURL on its own (SpecURL)

\* base URLs a client is constructed with: none and blank (the default is
\* taken), a server URL with and without a path and trailing slashes, one
\* whose scheme is in upper case, and one without scheme and host whose first
\* segment has an escaped colon
URLBases ==
    {Str0, <<" ">>, <<"H", "T", "T", "P", ":", "/", "/", "h">>, <<"a", "%", "3", "A", " ", "b">>}
        \cup {ServerURL \o seg \o Rep("/", k) : seg \in {Str0, <<"/", "v">>}, k \in 0..MaxSlashes}

\* relative paths: a resource, nested, with a space inside, with a query of its
\* own, one url.Parse rejects, one with an escaped slash, and none; behind
\* 0..MaxSlashes slashes, bare or with a space on either side
\* relative paths with white space above U+007F around them: U+00A0 in
\* front, U+0085 behind, U+2003 in front of the slash
UnicodeSpacedPaths ==
    {<<"xC2", "xA0", "r">>, <<"r", "xC2", "x85">>, <<"xE2", "x80", "x83", "/", "x">>, <<"xC2", "xA0">>}

RelativeCores ==
    {<<"r">>, <<"r", "/", "x">>, <<"r", " ", "x">>, <<"r", "?", "k", "=", "u">>, <<"%">>,
     <<"r", "%", "2", "F", "x">>, Str0}

RelativePaths ==
    {Rep(" ", a) \o Rep("/", k) \o core \o Rep(" ", a) :
        a \in 0..1, k \in 0..MaxSlashes, core \in RelativeCores}
        \cup UnicodeSpacedPaths

\* queries an absolute URL comes with: none, a lone '?', one pair, two keys, a
\* key twice, a key without value, an empty piece, malformed pieces (a '%'
\* that is no escape, a ';'), and an escaped value
AbsoluteQueries ==
    { Str0,
      <<"?">>,
      <<"?", "k", "=", "u">>,
      <<"?", "p", "=", "u", "&", "k", "=", "u">>,
      <<"?", "k", "=", "u", "&", "k", "=", "w">>,
      <<"?", "k">>,
      <<"?", "k", "=", "u", "&", "&", "p", "=", "w">>,
      <<"?", "k", "=", "%", "&", "p", "=", "w">>,
      <<"?", "k", "=", "u", ";", "p", "=", "w">>,
      <<"?", "k", "=", "%", "2", "6", "+", "u">> }

\* absolute URLs: the listing resource over both schemes with each query, a
\* host and a path url.Parse rejects, a host with an escaped '%', a port
\* that is no number
AbsolutePaths ==
    {scheme \o <<"h", "/", "r">> \o q : scheme \in {HTTP, HTTPS}, q \in AbsoluteQueries}
        \cup {HTTP \o <<"h", " ", "x", "/", "r">>, HTTP \o <<"h", "/", "%">>,
              HTTP \o <<"h", "%", "2", "5", "a", "/", "r">>, HTTP \o <<"h", ":", "x", "/", "r">>}

\* queries a caller supplies
CallerQueries == {NoQuery, QueryK, QueryKP, QueryEmptyList}

InitURL ==
    /\ \E b \in URLBases :
        /\ config = Config(b, Str0, <<"t">>)
        /\ client = ClientOf(config)
    /\ listing = TestListing
    /\ Idle
    /\ cli = NoCLI

\* one call of buildURL, its arguments and result kept in built
BuildOnly(path, query) ==
    /\ ~built.called
    /\ built' = [called |-> TRUE, path |-> path, query |-> query,
                 url |-> BuildURL(client, path, query).url, err |-> BuildURL(client, path, query).err,
                 after |-> RangedQuery(client, path, query)]
    /\ UNCHANGED <<config, client, listing, pc, op, dj, next, currentQuery, all, ret, djret, out,
                   calls, log, result, cli>>

NextURL == \E path \in RelativePaths \cup AbsolutePaths, query \in CallerQueries : BuildOnly(path, query)

SpecURL == InitURL /\ [][NextURL]_vars

\* ------------------------------------------------ the command line (SpecCLI)

\* fmt.Errorf without a wrapped error
Errorf(msg) == [kind |-> "text", msg |-> msg]

\* fmt.Errorf("...: %w", err) around an error value
WrapErr(msg, err) == [kind |-> "wrapped error", msg |-> msg, cause |-> err]

\* a line written with fmt.Fprintf: its fixed text and the value formatted into it
Line(text, arg) == [kind |-> "line", text |-> text, arg |-> arg]

\* config.Profile
Profile(baseURL, username, token) == [baseURL |-> baseURL, username |-> username, token |-> token]
NoProfile == Profile(Str0, Str0, Str0)

\* config.Config, the content of the config file: the name of the current
\* profile and the profiles by name
Store(current, profiles) == [current |-> current, profiles |-> profiles]
EmptyStore == Store("", << >>)

\* the name ActiveProfile looks up: the override, or else the current profile
ActiveName(store, override) == IF override # "" THEN override ELSE store.current

\* cfg.ActiveProfile(override): the profile, its name, or the error
ActiveProfile(store, override) ==
    IF ActiveName(store, override) = ""
    THEN [profile |-> NoProfile, name |-> "", err |-> Errorf("no active profile")]
    ELSE IF ActiveName(store, override) \notin DOMAIN store.profiles
    THEN [profile |-> NoProfile, name |-> "", err |-> Errorf("profile not found")]
    ELSE [profile |-> store.profiles[ActiveName(store, override)],
          name |-> ActiveName(store, override), err |-> NoErr]

\* mutant of profileFromConfig: a profile without a token is handed on
profileFromConfigAnyToken(store, profileName) ==
    IF ActiveProfile(store, profileName).err # NoErr
    THEN [profile |-> NoProfile, err |-> WrapErr("resolve profile", ActiveProfile(store, profileName).err)]
    ELSE [profile |-> ActiveProfile(store, profileName).profile, err |-> NoErr]

\* profileFromConfig(profileName) over the loaded config: the profile, or the
\* error when none resolves or the one that does has a blank token
profileFromConfig(store, profileName) ==
    IF ActiveProfile(store, profileName).err # NoErr
    THEN [profile |-> NoProfile, err |-> WrapErr("resolve profile", ActiveProfile(store, profileName).err)]
    ELSE IF TrimSpace(ActiveProfile(store, profileName).profile.token) = Str0
    THEN [profile |-> NoProfile, err |-> Errorf("profile has no token configured")]
    ELSE [profile |-> ActiveProfile(store, profileName).profile, err |-> NoErr]

\* the client of a profile: api.NewClientWithUser(p.BaseURL, p.Username, p.Token, nil)
ProfileClient(p) == NewClientWithUser(p.baseURL, p.username, p.token)

\* newClientFromProfile(profileName): the client, or the error of profileFromConfig
newClientFromProfile(store, profileName) ==
    [client |-> ProfileClient(profileFromConfig(store, profileName).profile),
     err |-> profileFromConfig(store, profileName).err]

\* resolveRepoTarget(workspaceValue, repoValue, requireRepo) where git infers
\* the pair inferred (empty texts when it infers nothing)
resolveRepoTarget(workspaceValue, repoValue, requireRepo, inferred) ==
    IF (IF TrimSpace(workspaceValue) # Str0 THEN TrimSpace(workspaceValue) ELSE inferred[1]) = Str0
    THEN [workspace |-> Str0, repo |-> Str0, err |-> Errorf("--workspace is required")]
    ELSE IF requireRepo /\ (IF TrimSpace(repoValue) # Str0 THEN TrimSpace(repoValue) ELSE inferred[2]) = Str0
    THEN [workspace |-> Str0, repo |-> Str0, err |-> Errorf("--repo is required")]
    ELSE [workspace |-> IF TrimSpace(workspaceValue) # Str0 THEN TrimSpace(workspaceValue) ELSE inferred[1],
          repo |-> IF TrimSpace(repoValue) # Str0 THEN TrimSpace(repoValue)
                   ELSE IF TrimSpace(workspaceValue) = Str0 \/ requireRepo THEN inferred[2] ELSE Str0,
          err |-> NoErr]

\* the path a list or write command asks for
CommandPath(name, workspace, repo) ==
    CASE name = "repo list" -> REPOSITORIES \o workspace
      [] name \in {"pr list", "pr create"} -> REPOSITORIES \o workspace \o SLASH \o repo \o PULLREQUESTS
      [] name \in {"pipeline list", "pipeline run"} -> REPOSITORIES \o workspace \o SLASH \o repo \o PIPELINES
      [] name \in {"issue list", "issue create"} -> REPOSITORIES \o workspace \o SLASH \o repo \o ISSUES
      [] OTHER -> REPOSITORIES \o workspace \o SLASH \o repo \o ISSUES \o <<"/", "1">>

\* the method of a write command
CommandMethod(name) == IF name = "issue update" THEN "PUT" ELSE "POST"

\* strings.ToUpper on the methods of the model
ToUpper(method) == CASE method = "get" -> "GET" [] method = "post" -> "POST" [] OTHER -> method

\* a continuation byte of UTF-8
IsContinuation(c) == Ord(c) \in 128..191

\* utf8.DecodeRuneInString: the number of bytes of the rune a non-empty text
\* begins with, 0 when it begins with no valid encoding
RuneLen(s) ==
    IF Ord(s[1]) < 128 THEN 1
    ELSE IF Ord(s[1]) \in 194..223 /\ Len(s) >= 2 /\ IsContinuation(s[2]) THEN 2
    ELSE IF /\ Ord(s[1]) \in 224..239 /\ Len(s) >= 3 /\ IsContinuation(s[2]) /\ IsContinuation(s[3])
            /\ (s[1] = "xE0" => Ord(s[2]) >= 160) /\ (s[1] = "xED" => Ord(s[2]) <= 159)
    THEN 3
    ELSE IF /\ Ord(s[1]) \in 240..244 /\ Len(s) >= 4
            /\ IsContinuation(s[2]) /\ IsContinuation(s[3]) /\ IsContinuation(s[4])
            /\ (s[1] = "xF0" => Ord(s[2]) >= 144) /\ (s[1] = "xF4" => Ord(s[2]) <= 143)
    THEN 4
    ELSE 0

\* unicode.ToUpper of a rune given by its encoding: a to z, U+00B5 (to
\* U+039C), U+00E0 to U+00FE but U+00F7, U+00FF (to U+0178); the other runes
\* up to U+00FF have no upper case
UpperRune(r) ==
    IF Len(r) = 1 THEN (IF r[1] \in LowerLetters THEN <<Bytes[Ord(r[1]) - 31]>> ELSE r)
    ELSE IF r = <<"xC2", "xB5">> THEN <<"xCE", "x9C">>
    ELSE IF r = <<"xC3", "xBF">> THEN <<"xC5", "xB8">>
    ELSE IF Len(r) = 2 /\ r[1] = "xC3" /\ Ord(r[2]) \in 160..190 /\ r[2] # "xB7"
    THEN <<"xC3", Bytes[Ord(r[2]) - 31]>>
    ELSE r

RECURSIVE ToUpperText(_)
\* strings.ToUpper on a text (strings.Map of unicode.ToUpper): rune by rune,
\* a byte that begins no valid encoding becoming U+FFFD
ToUpperText(s) ==
    IF s = << >> THEN << >>
    ELSE IF RuneLen(s) = 0 THEN <<"xEF", "xBF", "xBD">> \o ToUpperText(Tail(s))
    ELSE UpperRune(SubSeq(s, 1, RuneLen(s))) \o ToUpperText(SubSeq(s, RuneLen(s) + 1, Len(s)))

\* the keys of the flags the list commands send as a query
QKey == <<"q">>
SortKey == <<"s", "o", "r", "t">>
FieldsKey == <<"f", "i", "e", "l", "d", "s">>
StateKey == <<"s", "t", "a", "t", "e">>

\* query.Set(key, value) when the value is not blank: runAPI and runRepoList
\* set the flag's value as given
SetIfNotBlank(values, key, value) == IF TrimSpace(value) # Str0 THEN (key :> <<value>>) @@ values ELSE values

\* the query of runAPI: the q, sort and fields flags that are not blank, as given
FlagQuery(a) ==
    SetIfNotBlank(SetIfNotBlank(SetIfNotBlank(NoQuery, QKey, a.q), SortKey, a.sort), FieldsKey, a.fields)

\* setQueryIfNotEmpty: values with the trimmed value set for the key when it
\* is not blank
setQueryIfNotEmpty(values, key, value) ==
    IF TrimSpace(value) # Str0 THEN (key :> <<TrimSpace(value)>>) @@ values ELSE values

\* the query of a list command: q, sort and fields for runRepoList (as given)
\* and runIssueList, state in upper case before them for runPRList, sort and
\* fields alone for runPipelineList
ListQuery(a) ==
    CASE a.name = "repo list" -> FlagQuery(a)
      [] a.name = "pr list" ->
           setQueryIfNotEmpty(
               setQueryIfNotEmpty(
                   setQueryIfNotEmpty(
                       setQueryIfNotEmpty(NoQuery, StateKey, ToUpperText(TrimSpace(a.state))),
                       QKey, a.q),
                   SortKey, a.sort),
               FieldsKey, a.fields)
      [] a.name = "pipeline list" ->
           setQueryIfNotEmpty(setQueryIfNotEmpty(NoQuery, SortKey, a.sort), FieldsKey, a.fields)
      [] OTHER ->
           setQueryIfNotEmpty(setQueryIfNotEmpty(setQueryIfNotEmpty(NoQuery, QKey, a.q), SortKey, a.sort),
                              FieldsKey, a.fields)

\* the flags the flag set of a list command defines
DefinedFlags(name) ==
    CASE name = "repo list" -> {"workspace", "output", "all", "profile", "q", "sort", "fields"}
      [] name = "pr list" -> {"workspace", "repo", "output", "all", "profile", "state", "q", "sort", "fields"}
      [] name = "pipeline list" -> {"workspace", "repo", "output", "all", "profile", "sort", "fields"}
      [] name = "issue list" -> {"workspace", "repo", "output", "all", "profile", "q", "sort", "fields"}

\* the flags a list command line gives a text with: the empty text of a
\* command line stands for a flag that is not given
GivenFlags(a) == {f \in {"workspace", "repo", "state", "q", "sort", "fields"} : a[f] # Str0}

\* the flags of a list command line its flag set does not define: --repo of
\* repo list, --state outside pr list, --q of pipeline list
UndefinedFlags(a) == {"-" \o f : f \in GivenFlags(a) \ DefinedFlags(a.name)}

\* the undefined flag fs.Parse can stop at, the first of them on the command
\* line: any of them, the order of the arguments being free; "" when all
\* flags are defined
FirstUndefined(a) == IF UndefinedFlags(a) = { } THEN {""} ELSE UndefinedFlags(a)

\* what fs.Parse writes to stderr when it fails: the error, then the usage
\* of the flag set
Usage(name) == [kind |-> "usage", of |-> name]
ParseFailure(name, flag) == <<Line("flag provided but not defined: ", flag), Usage(name)>>

\* what a command writes: printJSON(stdout, v, stderr), a table of rows, the
\* text lines of a write command
printJSON(v) == [kind |-> "json", value |-> v]
printTable(values) == [kind |-> "table", rows |-> values]

\* a value of a listing that is no JSON object: no row decodes from it
NotARow == Record(0, 0)

\* a row with a line break in its first cell ({"slug":"a\nb","full_name":"x"})
BreakRow == Record(0, 1)

\* a row with a line break in its last cell ({"slug":"a","full_name":"x\ny"})
BreakLastRow == Record(0, 2)

\* the text a value of the listings has under a key of its object, the empty
\* text without the key: the values have a slug, those with a line break a
\* full name too
Field(v, key) ==
    IF key = "slug"
    THEN (IF v = BreakRow THEN <<"a", "\n", "b">>
          ELSE IF v = BreakLastRow THEN <<"a">>
          ELSE <<"r", Digit(v \div 10), Digit(v % 10)>>)
    ELSE IF key = "full_name"
    THEN (IF v = BreakRow THEN <<"x">> ELSE IF v = BreakLastRow THEN <<"x", "\n", "y">> ELSE Str0)
    ELSE Str0

\* the row a value decodes to in the table of a list command, as the cells
\* the command prints: what the object lacks is the zero value (0 for the
\* id, the empty text for the names of the branches, the state label and
\* the ref of a pipeline, which are fields of objects inside)
RowCells(name, v) ==
    CASE name = "repo list" -> <<Field(v, "slug"), Field(v, "full_name")>>
      [] name = "pr list" -> << <<"0">>, Field(v, "state"), Str0, Str0, Field(v, "title")>>
      [] name = "pipeline list" -> <<Field(v, "uuid"), Str0, Str0>>
      [] name = "issue list" ->
           << <<"0">>, Field(v, "state"), Field(v, "kind"), Field(v, "priority"), Field(v, "title")>>

\* the header of the table of a list command: fmt.Fprintln(tw, "SLUG\tFULL_NAME"),
\* "ID\tSTATE\tSOURCE\tDEST\tTITLE", "UUID\tSTATE\tREF", "ID\tSTATE\tKIND\tPRIORITY\tTITLE"
TableHeader(name) ==
    CASE name = "repo list" -> <<"S", "L", "U", "G", "\t", "F", "U", "L", "L", "_", "N", "A", "M", "E", "\n">>
      [] name = "pr list" ->
           <<"I", "D", "\t", "S", "T", "A", "T", "E", "\t", "S", "O", "U", "R", "C", "E", "\t", "D", "E", "S", "T", "\t", "T", "I", "T", "L", "E", "\n">>
      [] name = "pipeline list" -> <<"U", "U", "I", "D", "\t", "S", "T", "A", "T", "E", "\t", "R", "E", "F", "\n">>
      [] name = "issue list" ->
           <<"I", "D", "\t", "S", "T", "A", "T", "E", "\t", "K", "I", "N", "D", "\t", "P", "R", "I", "O", "R", "I", "T", "Y", "\t", "T", "I", "T", "L", "E", "\n">>

\* the cells with a tab between them
JoinTab(cells) == Flatten([i \in 1..Len(cells) |-> IF i = 1 THEN cells[i] ELSE <<"\t">> \o cells[i]])

\* the line of a row: fmt.Fprintf(tw, "%s\t%s\n", row.Slug, row.FullName) and
\* the like with three and five cells
RowLine(name, v) == JoinTab(RowCells(name, v)) \o <<"\n">>

\* what the table printer of a list command has handed the tabwriter once
\* the rows are in
TableText(name, values) == TableHeader(name) \o Flatten([i \in 1..Len(values) |-> RowLine(name, values[i])])

\* the error of a value that is no row, as the table printer of the command
\* names it
DecodeRowError(name) ==
    CASE name = "repo list" -> Errorf("decode repo row")
      [] name = "pr list" -> Errorf("decode pull request row")
      [] name = "pipeline list" -> Errorf("decode pipeline row")
      [] name = "issue list" -> Errorf("decode issue row")

\* the line of the text that ends at byte i has one cell: no tab (\t, \v)
\* since the line break before
OneCell(text, i) ==
    \A j \in 1..(i - 1) : text[j] \in {"\t", "x0B"} => \E k \in (j + 1)..(i - 1) : text[k] \in {"\n", "\f"}

\* text/tabwriter: the bytes at which the Writer writes out what it holds
\* before Flush is called: a form feed, and a line break that ends a line of
\* one cell
WriteOuts(text) == {i \in 1..Len(text) : text[i] = "\f" \/ (text[i] = "\n" /\ OneCell(text, i))}

\* the part of the text the tabwriter has written out before Flush
WrittenOut(text) ==
    IF WriteOuts(text) = { } THEN Str0
    ELSE SubSeq(text, 1, CHOOSE i \in WriteOuts(text) : \A j \in WriteOuts(text) : j <= i)

\* a part of the text of a table on stdout, its columns aligned
printTablePart(text) == [kind |-> "table part", text |-> text]

\* the index of the first value that is no row
FirstBad(values) ==
    CHOOSE i \in 1..Len(values) : values[i] = NotARow /\ \A j \in 1..(i - 1) : values[j] # NotARow

\* what of the table is on stdout when value n fails to decode
WrittenBefore(name, values, n, flushed) ==
    IF ~flushed \/ WrittenOut(TableText(name, SubSeq(values, 1, n - 1))) = Str0 THEN << >>
    ELSE <<printTablePart(WrittenOut(TableText(name, SubSeq(values, 1, n - 1))))>>

\* printRepoTable, printPRTable, printPipelineTable and printIssueTable, as
\* the command name says, stdout taking what the tabwriter writes or not (flushed):
\* the table of the rows the values decode to; the error of the first value
\* that is no row, with what the tabwriter had written out before; the
\* error of tw.Flush: [code, stdout, stderr]
printRowTable(name, values, flushed) ==
    IF \E i \in 1..Len(values) : values[i] = NotARow
    THEN [code |-> 1, stdout |-> WrittenBefore(name, values, FirstBad(values), flushed),
          stderr |-> <<DecodeRowError(name)>>]
    ELSE IF ~flushed THEN [code |-> 1, stdout |-> << >>, stderr |-> <<Errorf("flush table")>>]
    ELSE [code |-> 0, stdout |-> <<printTable(values)>>, stderr |-> << >>]
printText(v) == [kind |-> "text", value |-> v]

\* the variables of the client and of the server
clientVars == <<config, client, listing, pc, op, dj, next, currentQuery, all, ret, djret, out,
                calls, log, result, built>>

\* before a command has constructed its client
NoClient == [baseURL |-> Str0, token |-> Str0, username |-> Str0, userAgent |-> Str0]
NoArgs == [name |-> "none"]

\* a process about to run a command over a config file (initial: the file as
\* it was when the process started)
StartCLI(store) ==
    [phase |-> "start", store |-> store, initial |-> store, args |-> NoArgs, stdout |-> << >>,
     stderr |-> << >>, code |-> -1, loads |-> 0, saves |-> 0]

\* the command returns code having written stdout and stderr and called
\* config.Load loads times, without a call of the client
Exit(a, code, stdout, stderr, loads) ==
    /\ cli' = [cli EXCEPT !.phase = "done", !.args = a, !.code = code, !.stdout = stdout,
                          !.stderr = stderr, !.loads = @ + loads]
    /\ UNCHANGED clientVars

\* the command has its client from newClientFromProfile and makes its call
Connect(a, call) ==
    /\ cli' = [cli EXCEPT !.phase = "fetch", !.args = a, !.loads = @ + 1]
    /\ client' = newClientFromProfile(cli.store, a.profile).client
    /\ config' = Config(profileFromConfig(cli.store, a.profile).profile.baseURL,
                        profileFromConfig(cli.store, a.profile).profile.username,
                        profileFromConfig(cli.store, a.profile).profile.token)
    /\ listing' = listing
    /\ call

\* runAPI up to its call of the client, or its return before
runAPI(a) ==
    /\ cli.phase = "start"
    /\ a.name = "api"
    /\ IF Len(a.remaining) # 1
       THEN Exit(a, 1, << >>, <<Errorf("usage: bb api [flags] <endpoint>")>>, 0)
       ELSE IF newClientFromProfile(cli.store, a.profile).err # NoErr
       THEN Exit(a, 1, << >>, <<newClientFromProfile(cli.store, a.profile).err>>, 1)
       ELSE IF a.paginate
       THEN Connect(a, CallGetAllValues(a.remaining[1], FlagQuery(a)))
       ELSE Connect(a, CallDoJSON(ToUpper(a.method), a.remaining[1], FlagQuery(a), FALSE, "any"))

\* runRepoList, runPRList, runPipelineList, runIssueList up to the call of the
\* client, or the return before; undefined: the flag fs.Parse stops at
runList(a, target, undefined) ==
    /\ cli.phase = "start"
    /\ a.name \in {"repo list", "pr list", "pipeline list", "issue list"}
    /\ IF undefined # ""
       THEN Exit(a, 1, << >>, ParseFailure(a.name, undefined), 0)
       ELSE IF target.err # NoErr
       THEN Exit(a, 1, << >>, <<target.err>>, 0)
       ELSE IF newClientFromProfile(cli.store, a.profile).err # NoErr
       THEN Exit(a, 1, << >>, <<newClientFromProfile(cli.store, a.profile).err>>, 1)
       ELSE IF a.all
       THEN Connect(a, CallGetAllValues(CommandPath(a.name, target.workspace, target.repo), ListQuery(a)))
       ELSE Connect(a, CallDoJSON("GET", CommandPath(a.name, target.workspace, target.repo),
                                  ListQuery(a), FALSE, "list"))

\* mutant of runWrite: the output format looked at before the client is called
runWriteCheckingOutput(a, target) ==
    /\ cli.phase = "start"
    /\ a.name \in {"pr create", "pipeline run", "issue create", "issue update"}
    /\ IF target.err # NoErr
       THEN Exit(a, 1, << >>, <<target.err>>, 0)
       ELSE IF ~a.valid
       THEN Exit(a, 1, << >>, <<Errorf("a required flag is missing")>>, 0)
       ELSE IF a.output \notin {"json", "text"}
       THEN Exit(a, 1, << >>, <<Errorf("unsupported output format")>>, 0)
       ELSE IF newClientFromProfile(cli.store, a.profile).err # NoErr
       THEN Exit(a, 1, << >>, <<newClientFromProfile(cli.store, a.profile).err>>, 1)
       ELSE Connect(a, CallDoJSON(CommandMethod(a.name), CommandPath(a.name, target.workspace, target.repo),
                                  NoQuery, TRUE, "list"))

\* runPRCreate, runPipelineRun, runIssueCreate, runIssueUpdate up to the call
\* of the client, or the return before; a.valid: the flags the command requires
\* were given
runWrite(a, target) ==
    /\ cli.phase = "start"
    /\ a.name \in {"pr create", "pipeline run", "issue create", "issue update"}
    /\ IF target.err # NoErr
       THEN Exit(a, 1, << >>, <<target.err>>, 0)
       ELSE IF ~a.valid
       THEN Exit(a, 1, << >>, <<Errorf("a required flag is missing")>>, 0)
       ELSE IF newClientFromProfile(cli.store, a.profile).err # NoErr
       THEN Exit(a, 1, << >>, <<newClientFromProfile(cli.store, a.profile).err>>, 1)
       ELSE Connect(a, CallDoJSON(CommandMethod(a.name), CommandPath(a.name, target.workspace, target.repo),
                                  NoQuery, TRUE, "list"))

\* mutant of ListValues: the values returned by the call, whichever call it was
ListValuesOfCall(a, r, o) == r.values

\* the values a list command has after its fetch: those of GetAllValues, or
\* page.Values of the one page it decoded
ListValues(a, r, o) == IF a.all THEN r.values ELSE o.values

\* mutant of Report: the error of the client is reported after what was decoded
\* has been printed
ReportAfterPrinting(a, r, o, flushed) ==
    IF r.err # NoErr THEN [code |-> 1, stdout |-> <<printJSON(o)>>, stderr |-> <<r.err>>]
    ELSE IF a.name = "api"
    THEN [code |-> 0, stdout |-> <<printJSON(IF a.paginate THEN r.values ELSE o)>>, stderr |-> << >>]
    ELSE IF a.output = "json"
    THEN [code |-> 0, stderr |-> << >>,
          stdout |-> <<printJSON(IF a.name \in {"repo list", "pr list", "pipeline list", "issue list"}
                                 THEN ListValues(a, r, o) ELSE o)>>]
    ELSE IF a.output = "table" /\ a.name \in {"repo list", "pr list", "pipeline list", "issue list"}
    THEN printRowTable(a.name, ListValues(a, r, o), flushed)
    ELSE IF a.output = "text" /\ a.name \notin {"repo list", "pr list", "pipeline list", "issue list"}
    THEN [code |-> 0, stdout |-> <<printText(o)>>, stderr |-> << >>]
    ELSE [code |-> 1, stdout |-> << >>, stderr |-> <<Errorf("unsupported output format")>>]

\* what a command does with what the client returned, stdout taking the
\* table of a list command or not (flushed): [code, stdout, stderr]
Report(a, r, o, flushed) ==
    IF r.err # NoErr THEN [code |-> 1, stdout |-> << >>, stderr |-> <<r.err>>]
    ELSE IF a.name = "api"
    THEN [code |-> 0, stdout |-> <<printJSON(IF a.paginate THEN r.values ELSE o)>>, stderr |-> << >>]
    ELSE IF a.output = "json"
    THEN [code |-> 0, stderr |-> << >>,
          stdout |-> <<printJSON(IF a.name \in {"repo list", "pr list", "pipeline list", "issue list"}
                                 THEN ListValues(a, r, o) ELSE o)>>]
    ELSE IF a.output = "table" /\ a.name \in {"repo list", "pr list", "pipeline list", "issue list"}
    THEN printRowTable(a.name, ListValues(a, r, o), flushed)
    ELSE IF a.output = "text" /\ a.name \notin {"repo list", "pr list", "pipeline list", "issue list"}
    THEN [code |-> 0, stdout |-> <<printText(o)>>, stderr |-> << >>]
    ELSE [code |-> 1, stdout |-> << >>, stderr |-> <<Errorf("unsupported output format")>>]

\* the command from the return of the client to its own return
Finish(flushed) ==
    /\ cli.phase = "fetch"
    /\ pc = "idle"
    /\ result.returned
    /\ cli' = [cli EXCEPT !.phase = "done", !.code = Report(cli.args, result, out, flushed).code,
                          !.stdout = Report(cli.args, result, out, flushed).stdout,
                          !.stderr = Report(cli.args, result, out, flushed).stderr]
    /\ UNCHANGED clientVars

\* ------------------------------------------------- bb auth login, bb auth status


\* cfg.SetProfileWithAuth(name, username, token, baseURL): the profile stored
\* under the name ("default" for none, the default base URL for none) and made current
SetProfileWithAuth(store, name, username, token, baseURL) ==
    Store(IF name = "" THEN "default" ELSE name,
          ((IF name = "" THEN "default" ELSE name)
              :> Profile(IF baseURL = Str0 THEN DefaultBaseURL ELSE baseURL, username, token))
          @@ store.profiles)

\* normalizeAuthLoginArgs and the flag set: --with-token is set when it is given
\* or when --token is given without a value
WithToken(a) == a.withToken \/ a.tokenFlag = "bare"

\* the value of the token flag
TokenFlag(a) == IF a.tokenFlag = "value" THEN a.tokenValue ELSE Str0

\* readTokenFromStdin over the lines of stdin, or the error of reading it
readTokenFromStdin(stdin) ==
    IF stdin.lines = << >>
    THEN [token |-> Str0,
          err |-> IF stdin.err # "" THEN Wrap("read token from stdin", stdin.err)
                  ELSE Errorf("no token provided on stdin")]
    ELSE IF TrimSpace(stdin.lines[1]) = Str0
    THEN [token |-> Str0, err |-> Errorf("no token provided on stdin")]
    ELSE [token |-> TrimSpace(stdin.lines[1]), err |-> NoErr]

\* mutant of ResolvedToken: the environment is asked before stdin
ResolvedTokenEnvFirst(a) ==
    IF TrimSpace(TokenFlag(a)) # Str0 THEN [token |-> TrimSpace(TokenFlag(a)), err |-> NoErr]
    ELSE IF TrimSpace(a.envToken) # Str0 THEN [token |-> TrimSpace(a.envToken), err |-> NoErr]
    ELSE IF WithToken(a) THEN readTokenFromStdin(a.stdin)
    ELSE [token |-> Str0,
          err |-> Errorf("token is required: use --token <value>, --with-token, or BITBUCKET_TOKEN")]

\* runAuthLogin: resolvedToken, or the error the command stops with
ResolvedToken(a) ==
    IF TrimSpace(TokenFlag(a)) # Str0 THEN [token |-> TrimSpace(TokenFlag(a)), err |-> NoErr]
    ELSE IF WithToken(a) THEN readTokenFromStdin(a.stdin)
    ELSE IF TrimSpace(a.envToken) # Str0 THEN [token |-> TrimSpace(a.envToken), err |-> NoErr]
    ELSE [token |-> Str0,
          err |-> Errorf("token is required: use --token <value>, --with-token, or BITBUCKET_TOKEN")]

\* runAuthLogin: resolvedUsername
ResolvedUsername(a) ==
    IF TrimSpace(a.username) # Str0 THEN TrimSpace(a.username) ELSE TrimSpace(a.envUsername)

\* runAuthLogin
runAuthLogin(a) ==
    /\ cli.phase = "start"
    /\ a.name = "auth login"
    /\ IF ResolvedToken(a).err # NoErr
       THEN Exit(a, 1, << >>, <<ResolvedToken(a).err>>, 0)
       ELSE /\ cli' = [cli EXCEPT
                        !.phase = "done", !.args = a, !.code = 0,
                        !.store = SetProfileWithAuth(cli.store, a.profile, ResolvedUsername(a),
                                                     ResolvedToken(a).token, a.baseURL),
                        !.loads = @ + 1, !.saves = @ + 1,
                        !.stdout = <<Line("authenticated profile", a.profile),
                                     IF ResolvedUsername(a) # Str0
                                     THEN Line("auth mode: basic", ResolvedUsername(a))
                                     ELSE Line("auth mode: bearer token", Str0)>>]
            /\ UNCHANGED clientVars

\* bb auth login command lines with the stdin and the environment of the
\* process: the token flag absent, bare, blank or given; --with-token; stdin
\* closed, unreadable, with a blank line or with a token; BITBUCKET_TOKEN
\* unset, blank or set
LoginCommandLines ==
    {[name |-> "auth login", profile |-> p, tokenFlag |-> t[1], tokenValue |-> t[2], withToken |-> w,
      username |-> u, baseURL |-> Str0, stdin |-> i, envToken |-> e, envUsername |-> Str0] :
        p \in {"default", "other"},
        t \in {<<"absent", Str0>>, <<"bare", Str0>>, <<"value", <<" ">>>>, <<"value", <<"f">>>>},
        w \in BOOLEAN,
        u \in {Str0, <<" ", "u">>},
        i \in {[lines |-> << >>, err |-> ""], [lines |-> << >>, err |-> "closed"],
               [lines |-> << <<" ">> >>, err |-> ""], [lines |-> << <<"s", " ">>, <<"x">> >>, err |-> ""]},
        e \in {Str0, <<" ">>, <<"e">>}}

\* mutant of AuthStatus: the token line shows the token
AuthStatusShowingToken(store, profileName) ==
    IF ActiveProfile(store, profileName).err # NoErr
    THEN [code |-> 1, stdout |-> << >>, stderr |-> <<Errorf("not logged in: run bb auth login")>>]
    ELSE [code |-> 0, stderr |-> << >>,
          stdout |-> <<Line("Profile:", ActiveProfile(store, profileName).name),
                       Line("Base URL:", ActiveProfile(store, profileName).profile.baseURL),
                       IF TrimSpace(ActiveProfile(store, profileName).profile.username) # Str0
                       THEN Line("Auth: basic", ActiveProfile(store, profileName).profile.username)
                       ELSE Line("Auth: bearer token", Str0),
                       Line("Token:", ActiveProfile(store, profileName).profile.token)>>]

\* runAuthStatus over the loaded config: [code, stdout, stderr]
AuthStatus(store, profileName) ==
    IF ActiveProfile(store, profileName).err # NoErr
    THEN [code |-> 1, stdout |-> << >>, stderr |-> <<Errorf("not logged in: run bb auth login")>>]
    ELSE [code |-> 0, stderr |-> << >>,
          stdout |-> <<Line("Profile:", ActiveProfile(store, profileName).name),
                       Line("Base URL:", ActiveProfile(store, profileName).profile.baseURL),
                       IF TrimSpace(ActiveProfile(store, profileName).profile.username) # Str0
                       THEN Line("Auth: basic", ActiveProfile(store, profileName).profile.username)
                       ELSE Line("Auth: bearer token", Str0),
                       IF TrimSpace(ActiveProfile(store, profileName).profile.token) = Str0
                       THEN Line("Token: not configured", Str0)
                       ELSE Line("Token: configured", Str0)>>]

\* runAuthStatus
runAuthStatus(a) ==
    /\ cli.phase = "start"
    /\ a.name = "auth status"
    /\ Exit(a, AuthStatus(cli.store, a.profile).code, AuthStatus(cli.store, a.profile).stdout,
            AuthStatus(cli.store, a.profile).stderr, 1)

\* bb auth status command lines: the current profile, or one named
StatusCommandLines == {[name |-> "auth status", profile |-> p] : p \in {"", "default", "other"}}

\* the name cfg.RemoveProfile looks up: the one given, or else the current profile
RemovedName(store, target) == IF target = "" THEN store.current ELSE target

\* the profiles a config can have as its current one once a profile is
\* removed: the one it had, or when that is the one removed none or one of
\* those left
CurrentsAfter(store, target) ==
    IF store.current # RemovedName(store, target) THEN {store.current}
    ELSE {""} \cup ((DOMAIN store.profiles) \ {RemovedName(store, target)})

\* cfg.RemoveProfile(target): the config without the profile and with the
\* current profile current, the name looked up and whether it was there
RemoveProfile(store, target, current) ==
    IF RemovedName(store, target) = "" \/ RemovedName(store, target) \notin DOMAIN store.profiles
    THEN [store |-> store, removed |-> RemovedName(store, target), ok |-> FALSE]
    ELSE [store |-> Store(current, [n \in (DOMAIN store.profiles) \ {RemovedName(store, target)} |->
                                       store.profiles[n]]),
          removed |-> RemovedName(store, target), ok |-> TRUE]

\* runAuthLogout, the config having current as its current profile afterwards
runAuthLogout(a, current) ==
    /\ cli.phase = "start"
    /\ a.name = "auth logout"
    /\ current \in CurrentsAfter(cli.store, a.profile)
    /\ IF a.profile = "" /\ cli.store.current = ""
       THEN Exit(a, 1, << >>, <<Errorf("not logged in: run bb auth login")>>, 1)
       ELSE IF ~RemoveProfile(cli.store, a.profile, current).ok
       THEN Exit(a, 1, << >>,
                 <<IF RemoveProfile(cli.store, a.profile, current).removed = ""
                   THEN Errorf("not logged in: run bb auth login")
                   ELSE Line("profile not found", RemoveProfile(cli.store, a.profile, current).removed)>>, 1)
       ELSE /\ cli' = [cli EXCEPT
                        !.phase = "done", !.args = a, !.code = 0,
                        !.store = RemoveProfile(cli.store, a.profile, current).store,
                        !.loads = @ + 1, !.saves = @ + 1,
                        !.stdout = <<Line("logged out profile", RemoveProfile(cli.store, a.profile, current).removed)>>
                                     \o (IF current # "" THEN <<Line("active profile:", current)>> ELSE << >>)]
            /\ UNCHANGED clientVars

\* bb auth logout command lines: the current profile, or one named
LogoutCommandLines == {[name |-> "auth logout", profile |-> p] : p \in {"", "default", "other"}}

\* ------------------------------------------------------ bb wiki list (git)

RECURSIVE ReplaceAll(_, _, _)
\* strings.ReplaceAll(s, old, new) for a non-empty old
ReplaceAll(s, old, new) ==
    IF Len(s) < Len(old) THEN s
    ELSE IF HasPrefix(s, old) THEN new \o ReplaceAll(SubSeq(s, Len(old) + 1, Len(s)), old, new)
    ELSE <<Head(s)>> \o ReplaceAll(Tail(s), old, new)

\* strings.Contains
Contains(s, sub) == \E i \in 0..(Len(s) - Len(sub)) : SubSeq(s, i + 1, i + Len(sub)) = sub

\* escape(_, encodeUserPassword) of one byte of a user name or password
UserEscapeCh(c) == EscapeCh(c, "userPassword")

\* Userinfo.String of url.UserPassword(user, password)
UserPassword(user, password) ==
    Flatten([i \in 1..Len(user) |-> UserEscapeCh(user[i])]) \o <<":">>
        \o Flatten([i \in 1..Len(password) |-> UserEscapeCh(password[i])])

\* "x-token-auth", "x-bitbucket-api-token-auth"
XTokenAuth == <<"x", "-", "t", "o", "k", "e", "n", "-", "a", "u", "t", "h">>
XBitbucketAPITokenAuth ==
    <<"x", "-", "b", "i", "t", "b", "u", "c", "k", "e", "t", "-", "a", "p", "i", "-">> \o SubSeq(XTokenAuth, 3, 12)

\* resolveWikiAuthUser
resolveWikiAuthUser(profileUsername) ==
    IF TrimSpace(profileUsername) = Str0 THEN XTokenAuth
    ELSE IF ContainsCh(TrimSpace(profileUsername), "@") THEN XBitbucketAPITokenAuth
    ELSE TrimSpace(profileUsername)

\* "bitbucket.org"
BitbucketOrg == <<"b", "i", "t", "b", "u", "c", "k", "e", "t", ".", "o", "r", "g">>

\* buildWikiRemoteURL: the host of the remote
WikiHost(baseURL) ==
    IF ParseURL(TrimSpace(baseURL)).err = "" /\ ParseURL(TrimSpace(baseURL)).host # Str0
    THEN IF ParseURL(TrimSpace(baseURL)).host = <<"a", "p", "i", ".">> \o BitbucketOrg
         THEN BitbucketOrg ELSE ParseURL(TrimSpace(baseURL)).host
    ELSE BitbucketOrg

\* buildWikiRemoteURL: the URL git is given, with the credentials in it
buildWikiRemoteURL(p, workspace, repo) ==
    IF TrimSpace(p.token) = Str0
    THEN [url |-> Str0, err |-> Errorf("profile has no token configured")]
    ELSE [url |-> HTTPS \o UserPassword(resolveWikiAuthUser(p.username), p.token) \o <<"@">>
                    \o escape(WikiHost(p.baseURL), "host")
                    \o EscapedPath([path |-> SLASH \o workspace \o SLASH \o repo
                                               \o <<".", "g", "i", "t", "/", "w", "i", "k", "i">>,
                                     rawPath |-> Str0]),
          err |-> NoErr]

\* "git command failed: "
GitCommandFailed ==
    <<"g", "i", "t", " ", "c", "o", "m", "m", "a", "n", "d", " ", "f", "a", "i", "l", "e", "d", ":", " ">>

\* what a failing git clone writes: nothing, a message, or a message that
\* names the remote it was given
GitOutput(kind, remoteURL) ==
    CASE kind = "silent" -> Str0
      [] kind = "message" -> <<"f", "a", "t", "a", "l", " ">>
      [] OTHER -> <<"f", "a", "t", "a", "l", ":", " ">> \o remoteURL \o <<" ">>

\* runGitCommand when git fails: the text of the error
runGitCommand(output) ==
    GitCommandFailed
        \o (IF TrimSpace(output) = Str0 THEN <<"e", "x", "i", "t", " ", "s", "t", "a", "t", "u", "s", " ", "1">>
            ELSE TrimSpace(output))

\* redactToken
redactToken(input, token) ==
    IF TrimSpace(token) = Str0 THEN input ELSE ReplaceAll(input, TrimSpace(token), <<"*", "*", "*">>)

\* text written to stderr
Chars(text) == [kind |-> "chars", text |-> text]

\* "profile has no token configured"
NoTokenConfigured ==
    <<"p", "r", "o", "f", "i", "l", "e", " ", "h", "a", "s", " ", "n", "o", " ", "t", "o", "k", "e", "n", " ">>
        \o <<"c", "o", "n", "f", "i", "g", "u", "r", "e", "d">>

\* the index of the first slash of a text that has one
FirstSlash(s) == CHOOSE i \in 1..Len(s) : s[i] = "/" /\ \A j \in 1..(i - 1) : s[j] # "/"

\* the elements a path has between its slashes
RECURSIVE Elements(_)
Elements(s) ==
    IF ~ContainsCh(s, "/") THEN <<s>>
    ELSE <<SubSeq(s, 1, FirstSlash(s) - 1)>> \o Elements(SubSeq(s, FirstSlash(s) + 1, Len(s)))

\* the error of a file operation the operating system refuses
OSError == Errorf("operation not permitted")

\* the directory os.MkdirTemp("", "bb-wiki-*") makes
TempDir == "bb-wiki-1"

\* the text of the error of cloneWikiToTemp when os.MkdirTemp fails:
\* "create temp dir: mkdir /tmp/bb-wiki-1: operation not permitted"
CreateTempDirFailed ==
    <<"c", "r", "e", "a", "t", "e", " ", "t", "e", "m", "p", " ", "d", "i", "r", ":", " ", "m">>
        \o <<"k", "d", "i", "r", " ", "/", "t", "m", "p", "/", "b", "b", "-", "w", "i", "k", "i", "-">>
        \o <<"1", ":", " ", "o", "p", "e", "r", "a", "t", "i", "o", "n", " ", "n", "o", "t", " ", "p">>
        \o <<"e", "r", "m", "i", "t", "t", "e", "d">>

\* os.RemoveAll(d) over the directories that exist
RemoveAll(dirs, d) == dirs \ {d}

\* a step the command has taken in the clone: the git subcommand or the file
\* operation, what it was given (for git status: what it printed), and
\* whether it succeeded
Step(cmd, arg, ok) == [cmd |-> cmd, arg |-> arg, ok |-> ok]

\* the text of the error of a failing git subcommand, as the commands print it
GitError(git, remoteURL, token) == Chars(redactToken(runGitCommand(GitOutput(git, remoteURL)), token))

\* cloneWikiToTemp leaving the directory of a failed clone behind
cloneWikiToTempLeaving(p, workspace, repo, made, git) ==
    IF buildWikiRemoteURL(p, workspace, repo).err # NoErr
    THEN [dir |-> "", err |-> Chars(redactToken(NoTokenConfigured, p.token)), steps |-> << >>, tmp |-> { }]
    ELSE IF ~made
    THEN [dir |-> "", err |-> Chars(redactToken(CreateTempDirFailed, p.token)), steps |-> << >>, tmp |-> { }]
    ELSE IF git # "ok"
    THEN [dir |-> "", err |-> GitError(git, buildWikiRemoteURL(p, workspace, repo).url, p.token),
          steps |-> <<Step("clone", buildWikiRemoteURL(p, workspace, repo).url, FALSE)>>,
          tmp |-> {TempDir}]
    ELSE [dir |-> TempDir, err |-> NoErr,
          steps |-> <<Step("clone", buildWikiRemoteURL(p, workspace, repo).url, TRUE)>>,
          tmp |-> {TempDir}]

\* cloneWikiToTemp where os.MkdirTemp succeeds or not (made) and git clone
\* ends as git says: the directory returned, the error as the caller prints
\* it (redactToken over its text), the steps taken and the temporary
\* directories left
cloneWikiToTemp(p, workspace, repo, made, git) ==
    IF buildWikiRemoteURL(p, workspace, repo).err # NoErr
    THEN [dir |-> "", err |-> Chars(redactToken(NoTokenConfigured, p.token)), steps |-> << >>, tmp |-> { }]
    ELSE IF ~made
    THEN [dir |-> "", err |-> Chars(redactToken(CreateTempDirFailed, p.token)), steps |-> << >>, tmp |-> { }]
    ELSE IF git # "ok"
    THEN [dir |-> "", err |-> GitError(git, buildWikiRemoteURL(p, workspace, repo).url, p.token),
          steps |-> <<Step("clone", buildWikiRemoteURL(p, workspace, repo).url, FALSE)>>,
          tmp |-> RemoveAll({TempDir}, TempDir)]
    ELSE [dir |-> TempDir, err |-> NoErr,
          steps |-> <<Step("clone", buildWikiRemoteURL(p, workspace, repo).url, TRUE)>>,
          tmp |-> {TempDir}]

\* ".git"
DotGit == <<".", "g", "i", "t">>

\* a file of a clone: its path below the clone and its size
File(path, size) == [path |-> path, size |-> size]

\* the file is in a directory named .git, which the walk skips
UnderGit(path) == \E i \in 1..(Len(Elements(path)) - 1) : Elements(path)[i] = DotGit

\* the files of the clone the walk of listWikiPages comes to
Walked(tree) == {f \in tree : ~UnderGit(f.path)}

\* sort.Slice(rows, Path <) over the rows of the files walked
SortRows(files) ==
    [i \in 1..Cardinality(files) |-> CHOOSE f \in files : f.path = SortKeys({g.path : g \in files})[i]]

\* listWikiPages over a clone with the files tree, the walk succeeding or not
\* (walked): a row per file outside .git, sorted by path (without files the
\* rows are the nil slice, here the empty sequence)
listWikiPages(tree, walked) ==
    IF ~walked THEN [rows |-> << >>, err |-> WrapErr("list wiki pages", OSError)]
    ELSE [rows |-> SortRows(Walked(tree)), err |-> NoErr]

\* printWikiTable, stdout taking what the tabwriter writes or not (flushed):
\* [code, stdout, stderr]
printWikiTable(rows, flushed) ==
    IF ~flushed THEN [code |-> 1, stdout |-> << >>, stderr |-> <<Errorf("flush table")>>]
    ELSE [code |-> 0, stdout |-> <<printTable(rows)>>, stderr |-> << >>]

UnsupportedOutput == Errorf("unsupported output format")

\* runWikiList from listWikiPages on, which ended as listed says:
\* [code, stdout, stderr]
WikiListReport(output, listed, flushed) ==
    IF listed.err # NoErr THEN [code |-> 1, stdout |-> << >>, stderr |-> <<listed.err>>]
    ELSE IF output = "json" THEN [code |-> 0, stdout |-> <<printJSON(listed.rows)>>, stderr |-> << >>]
    ELSE IF output = "table" THEN printWikiTable(listed.rows, flushed)
    ELSE [code |-> 1, stdout |-> << >>, stderr |-> <<UnsupportedOutput>>]

\* runWikiList from cloneWikiToTemp on, which ended as c says
WikiClone(a, c, listed, flushed) ==
    IF c.err # NoErr THEN Exit(a, 1, << >>, <<c.err>>, 1)
    ELSE Exit(a, WikiListReport(a.output, listed, flushed).code, WikiListReport(a.output, listed, flushed).stdout,
              WikiListReport(a.output, listed, flushed).stderr, 1)

\* runWikiList over a clone with the files tree: os.MkdirTemp succeeds or not
\* (made), git clone ends as the command line says, the walk succeeds or not
\* (walked), stdout takes the table or not (flushed)
runWikiList(a, target, made, tree, walked, flushed) ==
    /\ cli.phase = "start"
    /\ a.name = "wiki list"
    /\ IF target.err # NoErr
       THEN Exit(a, 1, << >>, <<target.err>>, 0)
       ELSE IF profileFromConfig(cli.store, a.profile).err # NoErr
       THEN Exit(a, 1, << >>, <<profileFromConfig(cli.store, a.profile).err>>, 1)
       ELSE WikiClone(a, cloneWikiToTemp(profileFromConfig(cli.store, a.profile).profile,
                                         target.workspace, target.repo, made, a.git),
                      listWikiPages(tree, walked), flushed)

\* the HEAD of the repository of a clone
GitHead == File(DotGit \o <<"/", "H", "E", "A", "D">>, 21)

\* the files of the clones, each with its repository: a wiki without pages;
\* the pages Home.md and docs/Runbook.md; pages the walk comes to in another
\* order than their paths sort in (a/b before a.m)
WikiTrees ==
    { {GitHead},
      {File(<<"H", "o", "m", "e", ".", "m", "d">>, 7),
       File(<<"d", "o", "c", "s", "/", "R", "u", "n", "b", "o", "o", "k", ".", "m", "d">>, 8), GitHead},
      {File(<<"a", "/", "b">>, 1), File(<<"a", ".", "m">>, 0), GitHead} }

\* bb wiki list command lines with what git does: the clone succeeds, fails
\* without output, with a message, with a message naming the remote
WikiCommandLines ==
    {[name |-> "wiki list", workspace |-> <<"r">>, repo |-> r, output |-> o, profile |-> "", git |-> g] :
        r \in {<<"s">>, Str0}, o \in {"json", "table", "xml"},
        g \in {"ok", "silent", "message", "remote"}}

\* config files: none; one profile, current, over every kind of token and with
\* or without a username; two profiles
CLITokens == {Str0, <<" ">>, <<"t">>, <<" ", "t">>, <<"t", "/">>}

CLIStores ==
    {EmptyStore}
        \cup {Store("default", "default" :> Profile(ServerURL, u, t)) : u \in {Str0, <<"u">>}, t \in CLITokens}
        \cup {Store("default", ("default" :> Profile(ServerURL, Str0, <<"t">>))
                                  @@ ("other" :> Profile(ServerURL, <<"u">>, <<"w">>)))}

\* bb api command lines: with and without --paginate and -q over the listing,
\* no endpoint, an unknown one; a lower-case method, a profile override, no
\* argument; with --sort and --fields
APICommandLines ==
    {[name |-> "api", method |-> "GET", paginate |-> p, profile |-> "", q |-> q, sort |-> Str0,
      fields |-> Str0, remaining |-> <<e>>] :
        p \in BOOLEAN, q \in {Str0, <<"u">>}, e \in {<<"/", "v", "/", "r">>, Str0, <<"/", "x">>}}
        \cup {[name |-> "api", method |-> "get", paginate |-> FALSE, profile |-> "other", q |-> <<" ">>,
               sort |-> Str0, fields |-> Str0, remaining |-> << <<"/", "v", "/", "r">> >>],
              [name |-> "api", method |-> "GET", paginate |-> TRUE, profile |-> "", q |-> Str0,
               sort |-> Str0, fields |-> Str0, remaining |-> << >>]}
        \cup {[name |-> "api", method |-> "GET", paginate |-> FALSE, profile |-> "", q |-> f,
               sort |-> <<"n", " ">>, fields |-> f, remaining |-> << <<"/", "v", "/", "r">> >>] :
                 f \in {<<" ">>, <<"f">>}}

\* the --repo a list command is given: repo list has no such flag
RepoOf(name) == IF name = "repo list" THEN Str0 ELSE <<"s">>

\* list command lines over workspace r and repository s, in every output
\* format, with and without --all; with a profile, a blank workspace; with
\* --q, --sort and --state, also where the command has no such flag; repo
\* list with --repo
ListCommandLines ==
    {[name |-> n, workspace |-> <<"r">>, repo |-> RepoOf(n), output |-> o, all |-> a, profile |-> "",
      q |-> Str0, sort |-> Str0, fields |-> Str0, state |-> Str0] :
        n \in {"repo list", "pr list", "pipeline list", "issue list"},
        o \in {"json", "table", "xml"}, a \in BOOLEAN}
        \cup {[name |-> "repo list", workspace |-> w, repo |-> Str0, output |-> "json", all |-> TRUE,
               profile |-> "other", q |-> <<" ", "u">>, sort |-> Str0, fields |-> Str0, state |-> Str0] :
                 w \in {<<" ">>, <<" ", "r">>}}
        \cup {[name |-> n, workspace |-> <<"r">>, repo |-> RepoOf(n), output |-> "json", all |-> FALSE,
               profile |-> "", q |-> q, sort |-> <<" ", "n">>, fields |-> Str0, state |-> st] :
                 n \in {"repo list", "pr list", "pipeline list", "issue list"},
                 q \in {Str0, <<"u", " ">>}, st \in {Str0, <<" ", "o">>}}
        \cup {[name |-> "repo list", workspace |-> <<"r">>, repo |-> <<"s">>, output |-> "table", all |-> FALSE,
               profile |-> "", q |-> Str0, sort |-> Str0, fields |-> Str0, state |-> st] :
                 st \in {Str0, <<"o">>}}

\* write command lines
WriteCommandLines ==
    {[name |-> n, workspace |-> <<"r">>, repo |-> r, output |-> o, valid |-> v, profile |-> ""] :
        n \in {"pr create", "pipeline run", "issue create", "issue update"},
        r \in {<<"s">>, Str0}, o \in {"text", "json", "xml"}, v \in BOOLEAN}

\* what git infers from the remote of the working directory: nothing, or a pair
Inferences == {<<Str0, Str0>>, <<<<"r">>, <<"s">>>>}

\* the listings the server of a command holds
\* a listing whose one value is no row
BadRowListing == <<[values |-> <<NotARow>>, next |-> Str0]>>

\* listings with a row that has a line break before a value that is no row:
\* in its first cell; in its last cell, a row and a second page in between
BreakRowListing == <<[values |-> <<BreakRow, NotARow>>, next |-> Str0]>>
BreakLastListing ==
    <<[values |-> <<BreakLastRow, Record(1, 2)>>, next |-> PageURL(2)], [values |-> <<NotARow>>, next |-> Str0]>>

CLIListings == {TestListing, Listing(<<1>>, 0), BadRowListing, BreakRowListing, BreakLastListing}

InitCLI ==
    /\ config = Config(Str0, Str0, Str0)
    /\ client = NoClient
    /\ listing \in CLIListings
    /\ Idle
    /\ \E store \in CLIStores : cli = StartCLI(store)

NextCLI ==
    \/ \E a \in APICommandLines : runAPI(a)
    \/ \E a \in ListCommandLines, i \in Inferences :
         \E undefined \in FirstUndefined(a) :
            runList(a, resolveRepoTarget(a.workspace, IF a.name = "repo list" THEN Str0 ELSE a.repo,
                                       a.name # "repo list", i), undefined)
    \/ \E a \in WriteCommandLines, i \in Inferences :
         runWrite(a, resolveRepoTarget(a.workspace, a.repo, TRUE, i))
    \/ \E a \in LoginCommandLines : runAuthLogin(a)
    \/ \E a \in StatusCommandLines : runAuthStatus(a)
    \/ \E a \in LogoutCommandLines, current \in {"", "default", "other"} : runAuthLogout(a, current)
    \/ \E a \in WikiCommandLines, i \in Inferences, made \in BOOLEAN, tree \in WikiTrees :
         \E walked \in BOOLEAN, flushed \in BOOLEAN :
            runWikiList(a, resolveRepoTarget(a.workspace, a.repo, TRUE, i), made, tree, walked, flushed)
    \/ Request
    \/ DoJSONReturn
    \/ \E flushed \in BOOLEAN : Finish(flushed)

SpecCLI == InitCLI /\ [][NextCLI]_vars

\* ------------------------------------- bb wiki list, get and put, step by step

DOTDOT == <<".", ".">>

\* path.Clean over the elements todo, having kept the elements kept: empty
\* and "." elements go, ".." takes the element kept before it, a ".." with
\* nothing to take goes when the path is rooted and stays otherwise
RECURSIVE CleanElements(_, _, _)
CleanElements(todo, kept, rooted) ==
    IF todo = << >> THEN kept
    ELSE IF Head(todo) \in {Str0, <<".">>} THEN CleanElements(Tail(todo), kept, rooted)
    ELSE IF Head(todo) # DOTDOT THEN CleanElements(Tail(todo), Append(kept, Head(todo)), rooted)
    ELSE IF kept # << >> /\ kept[Len(kept)] # DOTDOT
    THEN CleanElements(Tail(todo), SubSeq(kept, 1, Len(kept) - 1), rooted)
    ELSE IF rooted THEN CleanElements(Tail(todo), kept, rooted)
    ELSE CleanElements(Tail(todo), Append(kept, DOTDOT), rooted)

JoinSlash(parts) == Flatten([i \in 1..Len(parts) |-> IF i = 1 THEN parts[i] ELSE SLASH \o parts[i]])

\* the cleaned elements joined, behind the slash of a rooted path
CleanJoined(p) ==
    (IF HasPrefix(p, SLASH) THEN SLASH ELSE Str0)
        \o JoinSlash(CleanElements(Elements(p), << >>, HasPrefix(p, SLASH)))

\* path.Clean
Clean(p) == IF CleanJoined(p) = Str0 THEN <<".">> ELSE CleanJoined(p)

\* normalizeWikiPagePath
normalizeWikiPagePath(page) ==
    IF TrimSpace(page) = Str0 THEN [page |-> Str0, err |-> Errorf("--page is required")]
    ELSE IF Clean(TrimSpace(page)) \in {<<".">>, SLASH} THEN [page |-> Str0, err |-> Errorf("invalid --page value")]
    ELSE IF HasPrefix(Clean(TrimSpace(page)), DOTDOT \o SLASH) \/ Clean(TrimSpace(page)) = DOTDOT
    THEN [page |-> Str0, err |-> Errorf("invalid --page value")]
    ELSE [page |-> Clean(TrimSpace(page)), err |-> NoErr]

\* a process about to run a wiki command over a config file: the steps it
\* has taken, the directory it works in and the temporary directories of its
\* own that exist
StartWiki(store) ==
    [phase |-> "start", store |-> store, args |-> NoArgs, profile |-> NoProfile, page |-> Str0,
     stdout |-> << >>, stderr |-> << >>, code |-> -1, steps |-> << >>, dir |-> "", tmp |-> { }]

\* a wiki command returns before it has a clone
WikiExit(a, code, stderr) ==
    /\ cli' = [cli EXCEPT !.phase = "done", !.args = a, !.code = code, !.stderr = stderr]
    /\ UNCHANGED clientVars

\* a wiki command is past cloneWikiToTemp, which ended as c says: on an error
\* it returns 1, otherwise it goes on in the clone with os.RemoveAll deferred
Cloned(a, p, page, c) ==
    /\ cli' = [cli EXCEPT !.phase = IF c.err # NoErr THEN "done" ELSE "cloned", !.args = a,
                          !.profile = p, !.page = page,
                          !.code = IF c.err # NoErr THEN 1 ELSE @,
                          !.stderr = IF c.err # NoErr THEN <<c.err>> ELSE @,
                          !.steps = c.steps, !.dir = c.dir, !.tmp = c.tmp]
    /\ UNCHANGED clientVars

\* a wiki command returns from its clone after the step last: the deferred
\* os.RemoveAll(repoDir) runs
WikiReturn(code, stdout, stderr, last) ==
    /\ cli' = [cli EXCEPT !.phase = "done", !.code = code, !.stdout = stdout, !.stderr = stderr,
                          !.steps = @ \o last, !.tmp = RemoveAll(@, cli.dir)]
    /\ UNCHANGED clientVars

\* a wiki command goes on to the phase to after the step last
WikiStep(to, last) ==
    /\ cli' = [cli EXCEPT !.phase = to, !.steps = @ \o last]
    /\ UNCHANGED clientVars

\* runWikiList up to its clone
runWikiListClone(a, target, made, git) ==
    /\ cli.phase = "start"
    /\ a.name = "wiki list"
    /\ IF target.err # NoErr THEN WikiExit(a, 1, <<target.err>>)
       ELSE IF profileFromConfig(cli.store, a.profile).err # NoErr
       THEN WikiExit(a, 1, <<profileFromConfig(cli.store, a.profile).err>>)
       ELSE Cloned(a, profileFromConfig(cli.store, a.profile).profile, Str0,
                   cloneWikiToTemp(profileFromConfig(cli.store, a.profile).profile,
                                   target.workspace, target.repo, made, git))

\* runWikiList from listWikiPages on, over a clone with the files tree: the
\* walk succeeds or not (walked), stdout takes the table or not (flushed)
runWikiListPages(tree, walked, flushed) ==
    /\ cli.phase = "cloned"
    /\ cli.args.name = "wiki list"
    /\ WikiReturn(WikiListReport(cli.args.output, listWikiPages(tree, walked), flushed).code,
                  WikiListReport(cli.args.output, listWikiPages(tree, walked), flushed).stdout,
                  WikiListReport(cli.args.output, listWikiPages(tree, walked), flushed).stderr,
                  <<Step("walk", cli.dir, walked)>>)

\* runWikiGet up to its clone
runWikiGet(a, target, made, git) ==
    /\ cli.phase = "start"
    /\ a.name = "wiki get"
    /\ IF target.err # NoErr THEN WikiExit(a, 1, <<target.err>>)
       ELSE IF normalizeWikiPagePath(a.page).err # NoErr
       THEN WikiExit(a, 1, <<normalizeWikiPagePath(a.page).err>>)
       ELSE IF profileFromConfig(cli.store, a.profile).err # NoErr
       THEN WikiExit(a, 1, <<profileFromConfig(cli.store, a.profile).err>>)
       ELSE Cloned(a, profileFromConfig(cli.store, a.profile).profile, normalizeWikiPagePath(a.page).page,
                   cloneWikiToTemp(profileFromConfig(cli.store, a.profile).profile,
                                   target.workspace, target.repo, made, git))

\* the content of the page the remote wiki has
PageContent == <<"c">>

\* runWikiGet from os.ReadFile on: the page is read, is not there, or cannot
\* be read
readWikiPage(read) ==
    /\ cli.phase = "cloned"
    /\ cli.args.name = "wiki get"
    /\ IF read = "missing"
       THEN WikiReturn(1, << >>, <<Line("wiki page not found: ", cli.page)>>, <<Step("read", cli.page, FALSE)>>)
       ELSE IF read = "error"
       THEN WikiReturn(1, << >>, <<WrapErr("read wiki page", OSError)>>, <<Step("read", cli.page, FALSE)>>)
       ELSE IF cli.args.output = "text"
       THEN WikiReturn(0, <<printText(PageContent)>>, << >>, <<Step("read", cli.page, TRUE)>>)
       ELSE IF cli.args.output = "json"
       THEN WikiReturn(0, <<printJSON([page |-> cli.page, content |-> PageContent])>>, << >>,
                       <<Step("read", cli.page, TRUE)>>)
       ELSE WikiReturn(1, << >>, <<UnsupportedOutput>>, <<Step("read", cli.page, TRUE)>>)

\* the content runWikiPut writes: what --file holds, or --content
pageContent(a) == IF TrimSpace(a.file) # Str0 THEN PageContent ELSE a.content

\* runWikiPut up to its clone: --file is read or not (read)
runWikiPut(a, target, read, made, git) ==
    /\ cli.phase = "start"
    /\ a.name = "wiki put"
    /\ IF target.err # NoErr THEN WikiExit(a, 1, <<target.err>>)
       ELSE IF normalizeWikiPagePath(a.page).err # NoErr
       THEN WikiExit(a, 1, <<normalizeWikiPagePath(a.page).err>>)
       ELSE IF TrimSpace(a.content) = Str0 /\ TrimSpace(a.file) = Str0
       THEN WikiExit(a, 1, <<Errorf("either --content or --file is required")>>)
       ELSE IF TrimSpace(a.content) # Str0 /\ TrimSpace(a.file) # Str0
       THEN WikiExit(a, 1, <<Errorf("use only one of --content or --file")>>)
       ELSE IF TrimSpace(a.file) # Str0 /\ ~read
       THEN WikiExit(a, 1, <<WrapErr("read --file", OSError)>>)
       ELSE IF profileFromConfig(cli.store, a.profile).err # NoErr
       THEN WikiExit(a, 1, <<profileFromConfig(cli.store, a.profile).err>>)
       ELSE Cloned(a, profileFromConfig(cli.store, a.profile).profile, normalizeWikiPagePath(a.page).page,
                   cloneWikiToTemp(profileFromConfig(cli.store, a.profile).profile,
                                   target.workspace, target.repo, made, git))

\* runWikiPut: os.MkdirAll and os.WriteFile, each succeeding or not
writeWikiPage(dirMade, written) ==
    /\ cli.phase = "cloned"
    /\ cli.args.name = "wiki put"
    /\ IF ~dirMade
       THEN WikiReturn(1, << >>, <<WrapErr("create wiki page directory", OSError)>>,
                       <<Step("mkdir", cli.page, FALSE)>>)
       ELSE IF ~written
       THEN WikiReturn(1, << >>, <<WrapErr("write wiki page", OSError)>>,
                       <<Step("mkdir", cli.page, TRUE), Step("write", pageContent(cli.args), FALSE)>>)
       ELSE WikiStep("written", <<Step("mkdir", cli.page, TRUE), Step("write", pageContent(cli.args), TRUE)>>)

\* runWikiPut: one call of gitCommandRunner in the clone, ending as git says;
\* a failure is printed redacted and returns 1
gitCommandRunner(from, cmd, arg, to, git) ==
    /\ cli.phase = from
    /\ cli.args.name = "wiki put"
    /\ IF git # "ok"
       THEN WikiReturn(1, << >>, <<GitError(git, Str0, cli.profile.token)>>, <<Step(cmd, arg, FALSE)>>)
       ELSE WikiStep(to, <<Step(cmd, arg, TRUE)>>)

\* runWikiPut: what it prints when nothing is left to do, with the status it names
putReport(output, page, status, text) ==
    IF output = "json" THEN [code |-> 0, stdout |-> <<printJSON([page |-> page, status |-> status])>>, stderr |-> << >>]
    ELSE IF output = "text" THEN [code |-> 0, stdout |-> <<Line(text, page)>>, stderr |-> << >>]
    ELSE [code |-> 1, stdout |-> << >>, stderr |-> <<UnsupportedOutput>>]

\* what git status --porcelain prints for a page: a line when it changed
statusOut(page, changed) == IF changed THEN <<"M", " ", " ">> \o page \o <<"\n">> ELSE Str0

\* gitStatus going on to the commit whatever git status prints
gitStatusCommitting(git, changed) ==
    /\ cli.phase = "added"
    /\ cli.args.name = "wiki put"
    /\ IF git # "ok"
       THEN WikiReturn(1, << >>, <<GitError(git, Str0, cli.profile.token)>>, <<Step("status", Str0, FALSE)>>)
       ELSE WikiStep("changed", <<Step("status", statusOut(cli.page, changed), TRUE)>>)

\* runWikiPut: git status --porcelain fails, prints nothing (the page is as
\* it was) or prints the page as changed
gitStatus(git, changed) ==
    /\ cli.phase = "added"
    /\ cli.args.name = "wiki put"
    /\ IF git # "ok"
       THEN WikiReturn(1, << >>, <<GitError(git, Str0, cli.profile.token)>>, <<Step("status", Str0, FALSE)>>)
       ELSE IF TrimSpace(statusOut(cli.page, changed)) = Str0
       THEN WikiReturn(putReport(cli.args.output, cli.page, "no_change", "No changes for wiki page: ").code,
                       putReport(cli.args.output, cli.page, "no_change", "No changes for wiki page: ").stdout,
                       putReport(cli.args.output, cli.page, "no_change", "No changes for wiki page: ").stderr,
                       <<Step("status", statusOut(cli.page, changed), TRUE)>>)
       ELSE WikiStep("changed", <<Step("status", statusOut(cli.page, changed), TRUE)>>)

\* the text before the first "@" of a text that has one
BeforeAt(s) == SubSeq(s, 1, (CHOOSE i \in 1..Len(s) : s[i] = "@" /\ \A j \in 1..(i - 1) : s[j] # "@") - 1)

\* runWikiPut: the name and the address of the commit
commitName(p) == IF ContainsCh(p.username, "@") THEN BeforeAt(p.username) ELSE <<"b", "b", "-", "c", "l", "i">>
commitEmail(p) ==
    IF ContainsCh(p.username, "@") THEN p.username
    ELSE <<"b", "b", "-", "c", "l", "i", "@", "l", "o", "c", "a", "l">>

\* runWikiPut: the commit message
commitMsg(a, page) ==
    IF TrimSpace(a.message) = Str0 THEN Line("Update wiki page ", page) ELSE Chars(TrimSpace(a.message))

\* runWikiPut: git push origin HEAD, and the report after it
gitPush(git) ==
    /\ cli.phase = "committed"
    /\ cli.args.name = "wiki put"
    /\ IF git # "ok"
       THEN WikiReturn(1, << >>, <<GitError(git, Str0, cli.profile.token)>>, <<Step("push", "HEAD", FALSE)>>)
       ELSE WikiReturn(putReport(cli.args.output, cli.page, "updated", "Updated wiki page: ").code,
                       putReport(cli.args.output, cli.page, "updated", "Updated wiki page: ").stdout,
                       putReport(cli.args.output, cli.page, "updated", "Updated wiki page: ").stderr,
                       <<Step("push", "HEAD", TRUE)>>)

\* wiki command lines over workspace r and repository s
WikiPages == {<<"h">>, Str0, <<".", ".", "/", "h">>, <<"a", "/", ".", ".", "/", "h">>, <<"a", "/", ".", ".">>}

WikiListLines ==
    {[name |-> "wiki list", workspace |-> <<"r">>, repo |-> r, output |-> o, profile |-> ""] :
        r \in {<<"s">>, Str0}, o \in {"json", "table", "xml"}}

WikiGetLines ==
    {[name |-> "wiki get", workspace |-> <<"r">>, repo |-> <<"s">>, page |-> pg, output |-> o, profile |-> ""] :
        pg \in WikiPages, o \in {"text", "json", "xml"}}

WikiPutLines ==
    {[name |-> "wiki put", workspace |-> <<"r">>, repo |-> <<"s">>, page |-> pg, content |-> c, file |-> f,
      message |-> m, output |-> o, profile |-> ""] :
        pg \in WikiPages, c \in {Str0, <<"c">>}, f \in {Str0, <<"f">>}, m \in {Str0, <<"m">>},
        o \in {"text", "json", "xml"}}

\* config files of the wiki commands: none, and one profile with or without
\* a token, whose username is none, a name or an address
WikiStores ==
    {EmptyStore}
        \cup {Store("default", "default" :> Profile(ServerURL, u, t)) :
                 u \in {Str0, <<"u">>, <<"u", "@", "h">>}, t \in {Str0, <<"t">>}}

\* what git does: it succeeds, fails without output, with a message, with a
\* message naming the remote
GitOutcomes == {"ok", "silent", "message", "remote"}

InitWiki ==
    /\ config = Config(Str0, Str0, Str0)
    /\ client = NoClient
    /\ listing = TestListing
    /\ Idle
    /\ \E store \in WikiStores : cli = StartWiki(store)

NextWiki ==
    \/ \E a \in WikiListLines, i \in Inferences, made \in BOOLEAN, git \in GitOutcomes :
         runWikiListClone(a, resolveRepoTarget(a.workspace, a.repo, TRUE, i), made, git)
    \/ \E tree \in WikiTrees, walked \in BOOLEAN, flushed \in BOOLEAN : runWikiListPages(tree, walked, flushed)
    \/ \E a \in WikiGetLines, made \in BOOLEAN, git \in GitOutcomes :
         runWikiGet(a, resolveRepoTarget(a.workspace, a.repo, TRUE, <<Str0, Str0>>), made, git)
    \/ \E read \in {"ok", "missing", "error"} : readWikiPage(read)
    \/ \E a \in WikiPutLines, read \in BOOLEAN, made \in BOOLEAN, git \in GitOutcomes :
         runWikiPut(a, resolveRepoTarget(a.workspace, a.repo, TRUE, <<Str0, Str0>>), read, made, git)
    \/ \E dirMade \in BOOLEAN, written \in BOOLEAN : writeWikiPage(dirMade, written)
    \/ \E git \in GitOutcomes : gitCommandRunner("written", "add", cli.page, "added", git)
    \/ \E git \in GitOutcomes, changed \in BOOLEAN : gitStatus(git, changed)
    \/ \E git \in GitOutcomes :
         gitCommandRunner("changed", "config user.name", commitName(cli.profile), "named", git)
    \/ \E git \in GitOutcomes :
         gitCommandRunner("named", "config user.email", commitEmail(cli.profile), "mailed", git)
    \/ \E git \in GitOutcomes :
         gitCommandRunner("mailed", "commit", commitMsg(cli.args, cli.page), "committed", git)
    \/ \E git \in GitOutcomes : gitPush(git)

SpecWiki == InitWiki /\ [][NextWiki]_vars

\* ----------------------------------------------------------------- claims

\* a call of GetAllValues has returned
ListReturned == pc = "idle" /\ op.name = "GetAllValues" /\ result.returned

\* the listing is a chain: the last page has an empty next
IsChain == listing[Len(listing)].next = Str0

\* entry e of the log is an exchange that succeeded: the healthy server answered
\* with the page the URL names
PageServed(e) == e.cause = "" /\ e.resp.status = 200 /\ Route(listing, e.req.url) # 0 /\ e.resp = Served(listing, e.req.url)

RECURSIVE ValuesFrom(_, _)
\* the records of pages i, i + 1, ... of the listing l in page order
ValuesFrom(l, i) == IF i > Len(l) THEN << >> ELSE l[i].values \o ValuesFrom(l, i + 1)

\* C1: when the listing is a chain and every exchange of a GetAllValues call
\* succeeded, the call returns without error the records of all pages from the
\* one its path names to the last, in page order, and it has sent one request per
\* page, in chain order: the first to the page the path names, each following one
\* to the link of the next page.
C1_ChainConcatenation ==
    (ListReturned /\ IsChain /\ log # << >> /\ \A i \in 1..Len(log) : PageServed(log[i]))
        => /\ result.err = NoErr
           /\ result.values = ValuesFrom(listing, Route(listing, log[1].req.url))
           /\ Len(log) = Len(listing) - Route(listing, log[1].req.url) + 1
           /\ \A i \in 2..Len(log) :
                log[i].req.url = PageURL(Route(listing, log[1].req.url) + i - 1)

\* C1 witness: a walk from page 1 over at least two pages that returned at least three records
C1_Witness ==
    /\ ListReturned /\ IsChain /\ result.err = NoErr
    /\ Len(log) >= 2 /\ Route(listing, log[1].req.url) = 1
    /\ \A i \in 1..Len(log) : PageServed(log[i])
    /\ Len(result.values) >= 3

\* C2: when a DoJSON call of GetAllValues has failed, on whatever page and with
\* whatever kind of error, GetAllValues returns exactly that error and no
\* values, also when earlier pages had delivered some.
C2_FailureReturnsNoValues ==
    (ListReturned /\ djret # NoDJ /\ djret # NoErr)
        => /\ result.err = djret
           /\ result.values = << >>

\* every failing call returns no values, and a call that returns an error is one whose DoJSON failed
C2_ErrorMeansNoValues ==
    (ListReturned /\ result.err # NoErr) => (djret = result.err /\ result.values = << >>)

\* C2 witness: the second page failed after the first had delivered records
C2_Witness ==
    /\ ListReturned /\ result.err # NoErr /\ result.err = djret
    /\ Len(log) = 2 /\ all # << >> /\ result.values = << >>

\* the requests of the call so far all carry the Authorization header h
AllCarry(h) == \A i \in 1..Len(log) : log[i].req.authorization = h

\* C3 as stated: a client constructed with a non-empty username sends Basic
\* credentials of that username and the token with every request; one with no
\* username but a token sends Bearer <token>; one with neither sends no
\* Authorization header.
C3_UsernameAloneDecides ==
    /\ config.username # Str0 => AllCarry(Header("Basic", config.username \o <<":">> \o config.token))
    /\ (config.username = Str0 /\ config.token # Str0) => AllCarry(Header("Bearer", config.token))
    /\ (config.username = Str0 /\ config.token = Str0) => AllCarry(Absent)

\* C3: the mode is fixed by the configuration the client was constructed with
\* and is the same for every request of a call, follow-up page requests
\* included: without a token no request carries an Authorization header,
\* whatever the username; with a token and a username that is not blank every
\* request carries Basic credentials of the username without the white space
\* around it and the token; with a token and a blank username every request
\* carries Bearer <token>.
C3_AuthorizationMode ==
    /\ config.token = Str0 => AllCarry(Absent)
    /\ (config.token # Str0 /\ TrimSpace(config.username) # Str0)
          => AllCarry(Header("Basic", TrimSpace(config.username) \o <<":">> \o config.token))
    /\ (config.token # Str0 /\ TrimSpace(config.username) = Str0)
          => AllCarry(Header("Bearer", config.token))

\* C3 witness: a username given with white space around it, and the follow-up
\* request of a listing carries the same Basic credentials as the first
C3_Witness ==
    /\ op.name = "GetAllValues" /\ Len(log) >= 2
    /\ config.username # TrimSpace(config.username)
    /\ log[1].req.authorization.scheme = "Basic"
    /\ log[2].req.authorization = log[1].req.authorization
    /\ log[2].req.url = PageURL(2)

\* a DoJSON call has returned and no later one has got its answer yet
DoJSONDone == djret # NoDJ /\ pc # "response"

\* the Request of the last DoJSON call handed a request to the transport
Sent == log # << >> /\ Len(log) = calls

\* the last DoJSON call obtained an HTTP response
Obtained == Sent /\ log[Len(log)].cause = ""

\* the response the last request got
LastResp == log[Len(log)].resp

RECURSIVE ByteAt(_, _)
\* whether byte k of a body is white space
ByteAt(runs, k) == IF k <= Head(runs).n THEN Head(runs).ws ELSE ByteAt(Tail(runs), k - Head(runs).n)

\* the position of the first byte of run i
StartOf(runs, i) == 1 + RunsLen(SubSeq(runs, 1, i - 1))

\* the positions among the first n bytes of a body where a run of text begins or ends
TextEnds(runs, n) ==
    {k \in {StartOf(runs, i) : i \in 1..Len(runs)} \cup {StartOf(runs, i + 1) - 1 : i \in 1..Len(runs)} \cup {n} :
        k >= 1 /\ k <= n /\ ~ByteAt(runs, k)}

Least(S) == CHOOSE k \in S : \A j \in S : k <= j
Greatest(S) == CHOOSE k \in S : \A j \in S : j <= k
Smaller(a, b) == IF a < b THEN a ELSE b

\* excerpt holds bytes a..b of body, byte for byte: both are constant between
\* the positions where a run of either begins
SameBytes(excerpt, body, a, b) ==
    /\ RunsLen(excerpt) = b - a + 1
    /\ \A i \in 1..Len(excerpt) :
         excerpt[i].n > 0 => ByteAt(excerpt, StartOf(excerpt, i)) = ByteAt(body, a + StartOf(excerpt, i) - 1)
    /\ \A i \in 1..Len(body) :
         (body[i].n > 0 /\ StartOf(body, i) >= a /\ StartOf(body, i) <= b)
             => ByteAt(excerpt, StartOf(body, i) - a + 1) = ByteAt(body, StartOf(body, i))

\* excerpt is the first n bytes of body without the white space at either end
TrimmedPrefix(excerpt, body, n) ==
    IF TextEnds(body, n) = {} THEN RunsLen(excerpt) = 0
    ELSE SameBytes(excerpt, body, Least(TextEnds(body, n)), Greatest(TextEnds(body, n)))

\* C4: a DoJSON call returns an APIError exactly when it obtained a response
\* whose status is at least 400; the APIError then carries that status and, as
\* its body, the first 4096 bytes of the response body (all of it when shorter)
\* without the white space at either end, and the output target is not written.
C4_APIErrorIffStatusFailure ==
    DoJSONDone =>
        /\ (djret.kind = "APIError") <=> (Obtained /\ LastResp.status >= 400)
        /\ djret.kind = "APIError" =>
             /\ djret.status = LastResp.status
             /\ TrimmedPrefix(djret.body, LastResp.body.runs, Smaller(4096, RunsLen(LastResp.body.runs)))
             /\ out = Unwritten

\* C4 witness: a status of exactly 400 with a body longer than 4096 bytes whose
\* first and 4096th bytes are white space: the excerpt is the 4094 bytes between
C4_Witness ==
    /\ DoJSONDone /\ djret.kind = "APIError" /\ djret.status = 400
    /\ RunsLen(LastResp.body.runs) > 4096
    /\ ByteAt(LastResp.body.runs, 1) /\ ByteAt(LastResp.body.runs, 4096)
    /\ RunsLen(djret.body) = 4094
    /\ dj.target # "none" /\ out = Unwritten

\* the four outcomes of a DoJSON call, told apart by the error it returned
IsSuccess(e) == e = NoErr
IsAPIError(e) == e.kind = "APIError"
IsDecodeError(e) == e.kind = "wrapped" /\ e.msg = "decode response"
IsNoResponseError(e) ==
    e.kind = "wrapped" /\ e.msg \in {"parse URL", "parse absolute URL", "build request", "execute request"}

\* how many of the four outcomes the error e is
OutcomesOf(e) ==
    Cardinality({k \in 1..4 : \/ k = 1 /\ IsSuccess(e)
                              \/ k = 2 /\ IsNoResponseError(e)
                              \/ k = 3 /\ IsAPIError(e)
                              \/ k = 4 /\ IsDecodeError(e)})

\* a body that does not decode into the target: no JSON value in it (empty or
\* white space only), malformed JSON, or an array where a listing page is expected
NotDecodable(body, target) ==
    \/ \A i \in 1..Len(body.runs) : body.runs[i].ws \/ body.runs[i].n = 0
    \/ body.json = "invalid"
    \/ body.json = "array" /\ target = "list"

\* C5: the outcome of a DoJSON call is exactly one of four, each decided by
\* what happened: an error without a response (URL or request not built, or the
\* transport failed) exactly when no response was obtained; an APIError exactly
\* when the response has a status of at least 400; a decode error exactly when
\* the response has a status below 400, an output target is given and the body
\* does not decode into it; success in every other case. A 200 response with a
\* malformed body gives a decode error, never an APIError.
C5_OutcomesPartition ==
    DoJSONDone =>
        /\ OutcomesOf(djret) = 1
        /\ IsNoResponseError(djret) <=> ~Obtained
        /\ IsAPIError(djret) <=> (Obtained /\ LastResp.status >= 400)
        /\ IsDecodeError(djret) <=>
              (Obtained /\ LastResp.status < 400 /\ dj.target # "none" /\ NotDecodable(LastResp.body, dj.target))
        /\ IsSuccess(djret) <=>
              (Obtained /\ LastResp.status < 400 /\ (dj.target = "none" \/ ~NotDecodable(LastResp.body, dj.target)))
        /\ (Obtained /\ LastResp.status = 200 /\ LastResp.body.json = "invalid" /\ dj.target # "none")
              => (IsDecodeError(djret) /\ ~IsAPIError(djret))

\* C5 witness: a 200 response whose body is the malformed "{invalid" has given a decode error
C5_Witness ==
    /\ DoJSONDone /\ Obtained /\ LastResp.status = 200 /\ LastResp.body.json = "invalid"
    /\ RunsLen(LastResp.body.runs) = 8
    /\ IsDecodeError(djret)

\* the responses of the call whose body is open: obtained and not closed
OpenBodies == {i \in 1..Len(log) : log[i].cause = "" /\ log[i].closes = 0}

\* the call runs DoJSON: directly or as the loop body of GetAllValues
ThroughDoJSON == op.name \in {"DoJSON", "GetAllValues"}

\* C6: in a DoJSON or GetAllValues call no response body is ever closed twice
\* and none is closed that was not obtained; every response obtained has its
\* body closed exactly once by the time its DoJSON call has returned, whatever
\* the outcome; so at most one body is open at any moment, only the one of the
\* response DoJSON is working on, and none is open once the call has returned.
C6_BodyClosedOnce ==
    ThroughDoJSON =>
        /\ \A i \in 1..Len(log) : log[i].closes <= 1 /\ (log[i].cause # "" => log[i].closes = 0)
        /\ \A i \in 1..Len(log) : (log[i].cause = "" /\ (i < Len(log) \/ pc # "response")) => log[i].closes = 1
        /\ Cardinality(OpenBodies) <= 1
        /\ OpenBodies # {} => (pc = "response" /\ OpenBodies = {Len(log)})
        /\ result.returned => OpenBodies = {}

\* C6 witness: a listing call that failed on its second page with an APIError
\* after a first page was decoded; both bodies were closed once
C6_Witness ==
    /\ ListReturned /\ Len(log) = 2 /\ IsAPIError(result.err)
    /\ log[1].cause = "" /\ log[2].cause = ""
    /\ log[1].closes = 1 /\ log[2].closes = 1

\* buildURL was called with a relative path
BuiltRelative == built.called /\ ~HasPrefix(built.path, HTTP) /\ ~HasPrefix(built.path, HTTPS)

\* a path of letters, digits and slashes
PlainPath(p) == \A i \in 1..Len(p) : IsLetter(p[i]) \/ IsDigit(p[i]) \/ p[i] = "/"

\* the number of slashes p begins with
LeadingSlashes(p) ==
    IF \A i \in 1..Len(p) : p[i] = "/" THEN Len(p)
    ELSE (CHOOSE i \in 1..Len(p) : p[i] # "/" /\ \A j \in 1..(i - 1) : p[j] = "/") - 1

\* p without its first n characters
Drop(p, n) == SubSeq(p, n + 1, Len(p))

\* the base URL the client works with: the default one when none is configured
EffectiveBase == IF TrimSpace(config.baseURL) = Str0 THEN DefaultBaseURL ELSE config.baseURL

\* the base URL without its trailing slashes
StrippedBase ==
    IF \A i \in 1..Len(EffectiveBase) : EffectiveBase[i] = "/" THEN Str0
    ELSE SubSeq(EffectiveBase, 1, CHOOSE i \in 1..Len(EffectiveBase) :
                    EffectiveBase[i] # "/" /\ \A j \in (i + 1)..Len(EffectiveBase) : EffectiveBase[j] = "/")

\* a base URL that is a scheme, "://" and a host and path of letters, digits,
\* dots and slashes
PlainBase(b) ==
    /\ GetScheme(b).err = "" /\ GetScheme(b).scheme # Str0
    /\ HasPrefix(GetScheme(b).rest, <<"/", "/">>)
    /\ \A i \in 1..Len(GetScheme(b).rest) :
            IsLetter(GetScheme(b).rest[i]) \/ IsDigit(GetScheme(b).rest[i]) \/ GetScheme(b).rest[i] \in {".", "/"}

\* a base URL with its scheme in lower case
SchemeLowered(b) == ToLower(GetScheme(b).scheme) \o <<":">> \o GetScheme(b).rest

\* the request URL up to its query
BuiltLocation == Cut(built.url, "?").before

BuiltMerged ==
    /\ built.called /\ built.err = NoErr
    /\ HasPrefix(built.path, HTTP) \/ HasPrefix(built.path, HTTPS)
    /\ ContainsCh(built.path, "?")
    /\ DOMAIN built.query # {}

RECURSIVE Pieces(_)
\* the '&'-separated pieces of a raw query that are not empty
Pieces(q) ==
    IF q = Str0 THEN << >>
    ELSE (IF Cut(q, "&").before = Str0 THEN << >> ELSE <<Cut(q, "&").before>>) \o Pieces(Cut(q, "&").after)

\* the parameters of a raw query as written: <<key, value>> of each piece
Params(q) == [i \in 1..Len(Pieces(q)) |-> <<Cut(Pieces(q)[i], "=").before, Cut(Pieces(q)[i], "=").after>>]

\* a parameter url.ParseQuery accepts: no ';' in it and no '%' that is not an escape
WellFormed(x) == \A t \in {x[1], x[2]} : ~ContainsCh(t, ";") /\ QueryUnescape(t).err = ""

\* a list of parameters as url.ParseQuery reads them: key and value unescaped
ReadParams(params) ==
    [i \in 1..Len(params) |-> <<QueryUnescape(params[i][1]).text, QueryUnescape(params[i][2]).text>>]

\* the parameters the absolute URL came with as written, the well-formed ones
\* among them as read, and those of the URL returned as read
GivenParams == Params(Cut(built.path, "?").after)
GivenRead == ReadParams(SelectSeq(GivenParams, WellFormed))
FinalParams == ReadParams(Params(Cut(built.url, "?").after))

\* how often x occurs in a sequence
Count(seq, x) == Cardinality({i \in 1..Len(seq) : seq[i] = x})

\* how often the caller supplies the parameter x, and values for the key k
CallerCount(x) == IF x[1] \in DOMAIN built.query THEN Count(built.query[x[1]], x[2]) ELSE 0
CallerValues(k) == IF k \in DOMAIN built.query THEN Len(built.query[k]) ELSE 0

\* the keys of a sequence of parameters
KeysOf(params) == {params[i][1] : i \in 1..Len(params)}

\* the caller's parameters as a set
CallerParams == UNION {{<<k, built.query[k][i]>> : i \in 1..Len(built.query[k])} : k \in DOMAIN built.query}

\* C8 as stated: the query of the final URL holds, for every key, a value for
\* each parameter the absolute URL came with and for each value the caller
\* supplies: nothing is replaced or dropped.
C8_NothingDropped ==
    BuiltMerged =>
        \A k \in KeysOf(GivenParams) \cup DOMAIN built.query :
            Count([i \in 1..Len(FinalParams) |-> FinalParams[i][1]], k)
                >= Count([i \in 1..Len(GivenParams) |-> GivenParams[i][1]], k) + CallerValues(k)

\* C8: the query of the final URL holds exactly the well-formed parameters the
\* absolute URL came with and the values the caller supplies, each as often as
\* it was given, also when a key occurs in both; a parameter of the URL that
\* url.ParseQuery rejects (a ';' in it, a '%' that is no escape) is left out.
C8_WellFormedUnion ==
    BuiltMerged =>
        \A x \in {GivenRead[i] : i \in 1..Len(GivenRead)} \cup {FinalParams[i] : i \in 1..Len(FinalParams)}
                  \cup CallerParams :
            Count(FinalParams, x) = Count(GivenRead, x) + CallerCount(x)

\* C8 witness: a URL with k twice and a caller with k and p: all five values are in the final query
C8_Witness ==
    /\ BuiltMerged
    /\ built.path = HTTP \o <<"h", "/", "r", "?", "k", "=", "u", "&", "k", "=", "w">>
    /\ built.query = QueryKP
    /\ Len(FinalParams) = 5
    /\ Count(FinalParams, << <<"k">>, <<"u">> >>) = 1
    /\ Count(FinalParams, << <<"k">>, <<"v">> >>) = 1

\* a direct DoJSON call has returned
DirectReturned == pc = "idle" /\ op.name = "DoJSON" /\ result.returned

\* an error of Request from before anything was sent: the URL or the request could not be built
IsBuildError(e) == e.kind = "wrapped" /\ e.msg \in {"parse URL", "parse absolute URL", "build request"}

\* entry e of the log is an exchange DoJSON made a page of
PageDecoded(e) == e.cause = "" /\ e.resp.status < 400 /\ ~NotDecodable(e.resp.body, "list")

\* C9 as stated: every DoJSON call has issued exactly one HTTP request, and a
\* GetAllValues call that failed on page N has issued exactly N.
C9_ExactlyOneRequestPerCall ==
    /\ DirectReturned => Len(log) = 1
    /\ (ListReturned /\ result.err # NoErr) => Len(log) = calls

\* C9: no request is retried. Every DoJSON call issues at most one HTTP
\* request: exactly one when the URL and the request can be built, none when
\* they cannot. When the DoJSON call for page N of a GetAllValues call fails,
\* the N - 1 requests before it each delivered a page, the request for page N
\* was issued once, or not at all when it could not be built, and no request
\* follows: the call has returned.
C9_NoRetry ==
    /\ ThroughDoJSON => (Len(log) <= calls /\ calls <= Len(log) + 1)
    /\ DirectReturned =>
         /\ calls = 1
         /\ Len(log) = (IF IsBuildError(result.err) THEN 0 ELSE 1)
    /\ (op.name = "GetAllValues" /\ djret # NoDJ /\ djret # NoErr /\ pc # "response") =>
         /\ ListReturned /\ result.err = djret
         /\ Len(log) = (IF IsBuildError(djret) THEN calls - 1 ELSE calls)
         /\ \A i \in 1..(calls - 1) : PageDecoded(log[i])
         /\ ~IsBuildError(djret) => ~PageDecoded(log[calls])
    /\ result.returned => pc = "idle"

\* C9 witness: a listing call whose second page could not be asked for, the
\* link to it being malformed: one request was issued in two DoJSON calls
C9_Witness ==
    /\ ListReturned /\ IsBuildError(result.err)
    /\ calls = 2 /\ Len(log) = 1 /\ PageDecoded(log[1])

\* a listing call that failed on its second request and stopped there
C9_FailedSecondRequest ==
    /\ ListReturned /\ result.err # NoErr /\ ~IsBuildError(result.err)
    /\ calls = 2 /\ Len(log) = 2

\* the last call of Request handed a request to the transport, which failed
TransportFailed == Sent /\ log[Len(log)].cause # "" /\ pc # "request"

\* C10: when the transport fails, Request returns no response and an error
\* that wraps the cause the transport gave; DoJSON returns that very error and
\* leaves the output target alone, GetAllValues returns it with no values, and
\* the error is no APIError. More generally every error of Request reaches the
\* caller of DoJSON and of GetAllValues unchanged.
C10_TransportErrorPropagates ==
    /\ TransportFailed =>
         /\ ret.resp = NoResp /\ ~ret.responded
         /\ ret.err.kind = "wrapped" /\ ret.err.msg = "execute request"
         /\ ret.err.cause = log[Len(log)].cause
         /\ ~IsAPIError(ret.err)
         /\ op.name = "Request" => (result.returned /\ result.err = ret.err)
    /\ (ThroughDoJSON /\ pc = "idle" /\ calls > 0 /\ ret.err # NoErr) =>
         /\ djret = ret.err /\ out = Unwritten
         /\ result.returned /\ result.err = ret.err /\ result.values = << >>
         /\ ~IsAPIError(result.err)
    /\ (ThroughDoJSON /\ pc = "request" /\ calls > 0) => ret.err = NoErr

\* C10 witness: the connection was refused on the second page of a listing;
\* the call returned the error wrapping that cause
C10_Witness ==
    /\ ListReturned /\ TransportFailed /\ Len(log) = 2 /\ all # << >>
    /\ log[2].cause = "connection refused"
    /\ result.err = Wrap("execute request", "connection refused")
    /\ result.values = << >>

\* C11: every request a call sends carries Content-Type: application/json when
\* the call was given a body and no Content-Type header when it was given
\* none; no request of a GetAllValues call, first or follow-up, carries one.
C11_ContentTypeIffBody ==
    /\ \A i \in 1..Len(log) :
         /\ dj.hasBody => log[i].req.contentType = ApplicationJSON
         /\ ~dj.hasBody => log[i].req.contentType = Absent
    /\ op.name = "GetAllValues" => \A i \in 1..Len(log) : ~log[i].req.contentType.set

\* C11 witness: a POST with a body was sent with the header
C11_Witness ==
    /\ op.name = "Request" /\ dj.hasBody /\ Len(log) = 1
    /\ log[1].req.method = "POST"
    /\ log[1].req.contentType = Header("application/json", Str0)

\* the follow-up request of a listing was sent without the header
C11_ListingWithoutHeader ==
    /\ op.name = "GetAllValues" /\ Len(log) = 2 /\ ~log[2].req.contentType.set

\* the commands that talk to the API
APICommands ==
    {"api", "repo list", "pr list", "pr create", "pipeline list", "pipeline run",
     "issue list", "issue create", "issue update"}

\* the profile the running command resolves
Resolved == ActiveProfile(cli.store, cli.args.profile)

\* an API command has started over a profile that resolves and has a blank token
BlankTokenRun ==
    /\ cli.phase # "start"
    /\ cli.args.name \in APICommands
    /\ Resolved.err = NoErr
    /\ TrimSpace(Resolved.profile.token) = Str0

\* C12: an API command whose resolved profile has an empty or whitespace-only
\* token returns a non-zero exit code without a single HTTP request; every
\* request a command sends carries an Authorization header.
C12_NoRequestWithoutToken ==
    /\ BlankTokenRun => cli.phase = "done" /\ cli.code # 0 /\ log = << >> /\ calls = 0
    /\ cli.phase # "start" /\ cli.args.name \in APICommands =>
         \A i \in 1..Len(log) : log[i].req.authorization.set
C12_Witness ==
    /\ BlankTokenRun
    /\ cli.args.name = "api"
    /\ Resolved.profile.token = <<" ">>
    /\ cli.code = 1
    /\ cli.stderr = <<Errorf("profile has no token configured")>>
    /\ log = << >>
C12_AuthorizedRequests ==
    /\ cli.phase = "done"
    /\ cli.args.name = "repo list"
    /\ Len(log) = 2
    /\ log[2].req.authorization = Header("Bearer", <<" ", "t">>)

\* an API command to which the client has returned
ClientReturned == cli.phase = "done" /\ cli.args.name \in APICommands /\ result.returned

\* C13: when the client returns an error to a command, on the first page or on
\* a later one, the command returns 1 with the error on stderr and nothing on
\* stdout; nothing is written to stdout while the fetch is running.
C13_ClientErrorExitsOne ==
    /\ ClientReturned /\ result.err # NoErr =>
         cli.code = 1 /\ cli.stderr = <<result.err>> /\ cli.stdout = << >>
    /\ cli.phase = "fetch" => cli.stdout = << >> /\ cli.stderr = << >>
C13_Witness ==
    /\ ClientReturned
    /\ cli.args.name = "api"
    /\ cli.args.paginate
    /\ Len(log) = 2
    /\ all # << >>
    /\ result.err = APIError(500, << >>)
    /\ cli.code = 1
    /\ cli.stderr = <<APIError(500, << >>)>>
    /\ cli.stdout = << >>
C13_DecodeErrorOnFirstPage ==
    /\ ClientReturned
    /\ cli.args.name = "repo list"
    /\ ~cli.args.all
    /\ Len(log) = 1
    /\ result.err = Wrap("decode response", "cannot unmarshal array")
    /\ cli.code = 1
    /\ cli.stdout = << >>
C13_TransportErrorOnWrite ==
    /\ ClientReturned
    /\ cli.args.name = "pr create"
    /\ result.err = Wrap("execute request", "connection refused")
    /\ cli.code = 1
    /\ cli.stdout = << >>

ListNames == {"repo list", "pr list", "pipeline list", "issue list"}

\* the command was given --paginate or --all
Paged == IF cli.args.name = "api" THEN cli.args.paginate ELSE cli.args.name \in ListNames /\ cli.args.all

\* the command has printed a listing
PrintedListing ==
    /\ ClientReturned
    /\ cli.args.name \in ListNames \cup {"api"}
    /\ cli.code = 0

\* the values on stdout
Printed == IF cli.stdout[1].kind = "table" THEN cli.stdout[1].rows ELSE cli.stdout[1].value

\* the values of the pages that came as responses, in the order they came
RECURSIVE PagesValues(_, _)
PagesValues(l, i) == IF i > Len(l) THEN << >> ELSE l[i].resp.body.values \o PagesValues(l, i + 1)

\* every request after the first went to the next link of the page before, and
\* the last page has none
FollowedLinks ==
    /\ \A i \in 1..(Len(log) - 1) :
         log[i].resp.body.next # Str0 /\ log[i + 1].req.url = log[i].resp.body.next
    /\ log # << >> => log[Len(log)].resp.body.next = Str0

\* C14: with --paginate or --all a command that prints has followed the next
\* links to the page without one and prints the values of all pages in the
\* order fetched; without the flag a list command that calls the client
\* sends exactly one request, and what it prints is the values of that page
\* alone, whether or not the page has a next link.
C14_PaginateMergesElseOnePage ==
    /\ PrintedListing /\ Paged => FollowedLinks /\ Printed = PagesValues(log, 1)
    /\ ClientReturned /\ cli.args.name \in ListNames /\ ~Paged => Len(log) = 1
    /\ PrintedListing /\ cli.args.name \in ListNames /\ ~Paged =>
         Printed = log[1].resp.body.values
C14_Witness ==
    /\ PrintedListing
    /\ cli.args.name = "repo list"
    /\ ~cli.args.all
    /\ listing = TestListing
    /\ Len(log) = 1
    /\ log[1].resp.body.next = PageURL(2)
    /\ Printed = <<Record(1, 1), Record(1, 2)>>
C14_AllPagesMerged ==
    /\ PrintedListing
    /\ cli.args.name = "repo list"
    /\ cli.args.all
    /\ listing = TestListing
    /\ Len(log) = 2
    /\ Printed = <<Record(1, 1), Record(1, 2), Record(2, 1)>>
C14_PaginatedAPI ==
    /\ PrintedListing
    /\ cli.args.name = "api"
    /\ cli.args.paginate
    /\ Len(log) = 2
    /\ cli.stdout = <<printJSON(<<Record(1, 1), Record(1, 2), Record(2, 1)>>)>>

\* bb auth login has returned
LoginDone == cli.phase = "done" /\ cli.args.name = "auth login"

\* what each source of the token holds, surrounding whitespace removed
FromFlag == IF cli.args.tokenFlag = "value" THEN TrimSpace(cli.args.tokenValue) ELSE Str0
FromStdin == IF cli.args.stdin.lines = << >> THEN Str0 ELSE TrimSpace(cli.args.stdin.lines[1])
FromEnv == TrimSpace(cli.args.envToken)

\* --with-token is in effect
StdinAsked == cli.args.withToken \/ cli.args.tokenFlag = "bare"

\* the login stored token t in the named profile and made that profile current
Saved(t) ==
    /\ cli.code = 0
    /\ cli.store.current = cli.args.profile
    /\ cli.args.profile \in DOMAIN cli.store.profiles
    /\ cli.store.profiles[cli.args.profile].token = t
    /\ \A n \in DOMAIN cli.initial.profiles \ {cli.args.profile} :
         n \in DOMAIN cli.store.profiles /\ cli.store.profiles[n] = cli.initial.profiles[n]

\* the config file was neither loaded nor saved and is as it was
Untouched == cli.store = cli.initial /\ cli.loads = 0 /\ cli.saves = 0

\* the first source in the order flag, stdin (under --with-token), environment
\* that holds a token
FirstInOrder ==
    IF FromFlag # Str0 THEN FromFlag
    ELSE IF StdinAsked /\ FromStdin # Str0 THEN FromStdin
    ELSE FromEnv

\* C15 as stated: the token is the first one found in the order --token, stdin
\* under --with-token, BITBUCKET_TOKEN; only when all are empty the command
\* exits non-zero, the configuration untouched.
C15_FallbackOrder ==
    LoginDone => IF FirstInOrder # Str0 THEN Saved(FirstInOrder) ELSE cli.code # 0 /\ Untouched

\* the source the command takes the token from: the environment is asked only
\* when --with-token is not in effect
Chosen == IF FromFlag # Str0 THEN FromFlag ELSE IF StdinAsked THEN FromStdin ELSE FromEnv

\* C15: the token is the --token value; without one, under --with-token, the
\* first line of stdin, and the command fails when that gives none, whatever
\* BITBUCKET_TOKEN holds; otherwise BITBUCKET_TOKEN. Whenever no token is
\* resolved the command exits non-zero and the configuration is neither
\* loaded nor saved nor changed.
C15_TokenResolution ==
    LoginDone => IF Chosen # Str0 THEN Saved(Chosen) ELSE cli.code # 0 /\ Untouched
C15_Witness ==
    /\ LoginDone
    /\ FromFlag = Str0 /\ ~StdinAsked /\ FromEnv = Str0
    /\ cli.args.stdin.lines # << >>
    /\ cli.initial # EmptyStore
    /\ cli.code = 1
    /\ cli.stderr = <<Errorf("token is required: use --token <value>, --with-token, or BITBUCKET_TOKEN")>>
    /\ Untouched
C15_EmptyStdinStopsLogin ==
    /\ LoginDone
    /\ FromFlag = Str0 /\ StdinAsked /\ FromStdin = Str0 /\ FromEnv = <<"e">>
    /\ cli.code = 1
    /\ cli.stderr = <<Errorf("no token provided on stdin")>>
    /\ Untouched
C15_StdinBeforeEnvironment ==
    /\ LoginDone
    /\ cli.args.tokenFlag = "bare" /\ FromStdin = <<"s">> /\ FromEnv = <<"e">>
    /\ cli.args.profile = "other"
    /\ cli.initial.current = "default"
    /\ Saved(<<"s">>)

\* bb auth status has returned, having found its profile
StatusShown ==
    /\ cli.phase = "done"
    /\ cli.args.name = "auth status"
    /\ ActiveProfile(cli.store, cli.args.profile).err = NoErr

\* the config file with the token of the profile the command shows replaced by t
Retokened(t) ==
    [cli.store EXCEPT !.profiles[ActiveProfile(cli.store, cli.args.profile).name].token = t]

\* what the command has written and returned
Shown == [code |-> cli.code, stdout |-> cli.stdout, stderr |-> cli.stderr]

\* tokens a profile can hold instead
OtherTokens == CLITokens \cup {<<"w">>, <<"t", "t">>}

\* C16 as stated: over a profile with a non-empty token the command writes and
\* returns what it would for any other non-empty token.
C16_SameForNonEmptyTokens ==
    StatusShown /\ ActiveProfile(cli.store, cli.args.profile).profile.token # Str0 =>
        \A t \in OtherTokens \ {Str0} : AuthStatus(Retokened(t), cli.args.profile) = Shown

\* C16: over a profile whose token is not blank the command writes and returns
\* what it would for any other token that is not blank (and over a blank
\* token what it would for any other blank one).
C16_SameForNonBlankTokens ==
    StatusShown =>
        \A t \in OtherTokens :
            (TrimSpace(t) = Str0) = (TrimSpace(ActiveProfile(cli.store, cli.args.profile).profile.token) = Str0)
                => AuthStatus(Retokened(t), cli.args.profile) = Shown
C16_Witness ==
    /\ StatusShown
    /\ ActiveProfile(cli.store, cli.args.profile).profile.token = <<" ", "t">>
    /\ ActiveProfile(cli.store, cli.args.profile).profile.username = <<"u">>
    /\ AuthStatus(Retokened(<<"w">>), cli.args.profile) = Shown
    /\ cli.stdout[4] = Line("Token: configured", Str0)
    /\ cli.code = 0
C16_BlankTokenShownAsNotConfigured ==
    /\ StatusShown
    /\ ActiveProfile(cli.store, cli.args.profile).profile.token = <<" ">>
    /\ cli.stdout[4] = Line("Token: not configured", Str0)
    /\ AuthStatus(Retokened(<<"t">>), cli.args.profile) # Shown

\* bb wiki list has returned after a git command failed
WikiGitFailed ==
    /\ cli.phase = "done"
    /\ cli.args.name = "wiki list"
    /\ cli.stderr # << >>
    /\ cli.stderr[1].kind = "chars"

\* the token of the profile the command ran with, surrounding whitespace removed
WikiToken == TrimSpace(Resolved.profile.token)

\* the forms the token takes in what git is given and writes: as it is, and
\* percent-encoded as the password of the remote URL
TokenForms == {WikiToken, Flatten([i \in 1..Len(WikiToken) |-> UserEscapeCh(WikiToken[i])])}

\* C17: when a git command of bb wiki list fails, the text written to stderr
\* holds the token in none of its forms, whatever git wrote and whatever the
\* token is.
C17_NoTokenInErrorText ==
    WikiGitFailed => \A f \in TokenForms : ~Contains(cli.stderr[1].text, f)

\* a token of letters is removed from the remote URL in the output of git
C17_PlainTokenRedacted ==
    /\ WikiGitFailed
    /\ cli.args.git = "remote"
    /\ Resolved.profile.token = <<" ", "t">>
    /\ \A f \in TokenForms : ~Contains(cli.stderr[1].text, f)
    /\ Contains(cli.stderr[1].text, <<":", "%", "2", "0", "*", "*", "*", "@", "h", "/">>)

\* a token with a slash is left in the text in its percent-encoded form
C17_EncodedTokenPrinted ==
    /\ WikiGitFailed
    /\ cli.args.git = "remote"
    /\ Resolved.profile.token = <<"t", "/">>
    /\ Contains(cli.stderr[1].text, <<":", "t", "%", "2", "F", "@", "h", "/">>)

\* C18 as stated: a GetAllValues call that has returned has issued at least one
\* HTTP request, whatever its path.
C18_FirstFetchAlways == ListReturned => Len(log) >= 1

\* C18: a GetAllValues call with a non-empty path runs Request at least once
\* before it returns, and at least one HTTP request is issued unless the first
\* one could not be built, which the call reports as its error: it returns
\* without error only after a page was fetched. A call with an empty path
\* returns at once, without a request, no values and no error.
C18_FirstFetchUnlessEmptyPath ==
    ListReturned =>
        IF op.path = Str0
        THEN calls = 0 /\ log = << >> /\ result.values = << >> /\ result.err = NoErr
        ELSE /\ calls >= 1
             /\ log = << >> => IsBuildError(result.err)
             /\ result.err = NoErr => PageDecoded(log[1])
C18_Witness ==
    /\ ListReturned
    /\ op.path = <<" ", "/", "r", " ">>
    /\ Len(listing) = 1
    /\ listing[1].values = << >>
    /\ Len(log) = 1
    /\ PageDecoded(log[1])
    /\ result = Returned(<< >>, NoErr)
C18_EmptyPathFetchesNothing ==
    /\ ListReturned
    /\ op.path = Str0
    /\ calls = 0
    /\ log = << >>
    /\ result = Returned(<< >>, NoErr)
C18_UnbuildablePathSendsNothing ==
    /\ ListReturned
    /\ op.path = <<"/", "%">>
    /\ calls = 1
    /\ log = << >>
    /\ IsBuildError(result.err)

\* the query string and the query parameters of the i-th request of the call
RequestRawQuery(i) == ParseURL(log[i].req.url).rawQuery
RequestQuery(i) == URLQuery(ParseURL(log[i].req.url))
\* the next link of the page the i-th request fetched
NextLink(i) == log[i].resp.body.next

\* C19: in a GetAllValues call the first request carries the query parameters
\* of the caller, added to those of the path; every later request goes to the
\* next link of the page before it, as the server wrote it: its query string is
\* the one of that link, and a parameter of the caller is in it only when the
\* link has it.
C19_CallerQueryOnFirstRequestOnly ==
    (op.name = "GetAllValues" /\ log # << >>) =>
        /\ built.called
        /\ RequestQuery(1) = AddAll(URLQuery(ParseURL(BuildURL(client, op.path, NoQuery).url)), op.query)
        /\ \A k \in DOMAIN op.query : k \in DOMAIN RequestQuery(1)
        /\ \A i \in 2..Len(log) :
             /\ PageDecoded(log[i - 1])
             /\ log[i].req.url = NextLink(i - 1)
             /\ RequestRawQuery(i) = ParseURL(NextLink(i - 1)).rawQuery
             /\ \A k \in DOMAIN op.query :
                  k \in DOMAIN RequestQuery(i) => k \in DOMAIN URLQuery(ParseURL(NextLink(i - 1)))
        /\ pc = "request" /\ Len(log) = calls => dj.query = NoQuery /\ dj.path = NextLink(Len(log))
C19_Witness ==
    /\ ListReturned
    /\ result.err = NoErr
    /\ op.query = QueryK
    /\ Len(log) = 2
    /\ log[1].req.url = BaseURL \o <<"/", "r", "?", "k", "=", "u">>
    /\ log[2].req.url = PageURL(2)
    /\ RequestRawQuery(2) = <<"p", "=", "2">>

\* the last request of a GetAllValues call fetched a page that links to another
LinkedOn == op.name = "GetAllValues" /\ log # << >> /\ PageDecoded(log[Len(log)]) /\ NextLink(Len(log)) # Str0
\* what buildURL makes of that link
LinkBuilt == BuildURL(client, NextLink(Len(log)), NoQuery)
\* the request for a page after the first got no response, or one that is no page
FollowingFailed(e) == e.cause # "" \/ (e.resp.status < 400 /\ NotDecodable(e.resp.body, "list"))

\* C20: a next link is not looked at when the page that carries it is decoded:
\* the page is taken, and the link is used for the request of the following
\* iteration. A link buildURL cannot parse fails that iteration before a
\* request is sent, with the parse error; a link whose request gets no response
\* fails it with the error wrapping the cause of the transport (both errors of
\* the kind where no response was obtained); a link answered with a body that
\* is no listing page fails it with a decode error. GetAllValues returns that
\* error, unchanged and with no values.
C20_BadNextFailsFollowingIteration ==
    /\ (LinkedOn /\ LinkBuilt.err # NoErr) =>
         /\ pc \in {"request", "response", "idle"}
         /\ (pc = "request" \/ (pc = "response" /\ calls = Len(log))) => ~result.returned
         /\ pc = "request" => dj.path = NextLink(Len(log)) /\ next = NextLink(Len(log))
         /\ (pc = "response" /\ calls = Len(log) + 1) => ret.err = LinkBuilt.err
         /\ pc = "idle" =>
              /\ calls = Len(log) + 1
              /\ result = Returned(<< >>, LinkBuilt.err)
              /\ IsNoResponseError(result.err) /\ IsBuildError(result.err)
    /\ (op.name = "GetAllValues" /\ Len(log) >= 2 /\ FollowingFailed(log[Len(log)]) /\ pc = "idle") =>
         /\ \A i \in 1..(Len(log) - 1) : PageDecoded(log[i])
         /\ log[Len(log)].req.url = NextLink(Len(log) - 1)
         /\ calls = Len(log)
         /\ result.returned /\ result.values = << >> /\ result.err = djret
         /\ IF log[Len(log)].cause # ""
            THEN result.err = Wrap("execute request", log[Len(log)].cause) /\ IsNoResponseError(result.err)
            ELSE IsDecodeError(result.err)
C20_Witness ==
    /\ ListReturned
    /\ listing = BrokenLinkListing
    /\ LinkedOn
    /\ NextLink(1) = ServerURL \o <<"/", "%">>
    /\ calls = 2 /\ Len(log) = 1
    /\ result.err.msg = "parse absolute URL"
    /\ result.values = << >>
C20_UnreachableNext ==
    /\ ListReturned
    /\ Len(log) = 2 /\ PageDecoded(log[1])
    /\ log[2].req.url = NextLink(1)
    /\ log[2].cause = "connection refused"
    /\ result = Returned(<< >>, Wrap("execute request", "connection refused"))
C20_UndecodableNext ==
    /\ ListReturned
    /\ Len(log) = 2 /\ PageDecoded(log[1])
    /\ log[2].cause = "" /\ log[2].resp.status = 200
    /\ IsDecodeError(result.err)
    /\ result.values = << >>

\* a GetAllValues call on a listing whose links end
ListingChain == op.name = "GetAllValues" /\ IsChain

\* what a GetAllValues call on such a listing has returned: the values of all
\* the pages in order once the page without next link was taken, or the error
\* of the first page that failed, every page before it having been taken
ReturnedAtEnd ==
    (ListReturned /\ IsChain /\ op.path # Str0) =>
        IF result.err = NoErr
        THEN /\ log # << >> /\ Len(log) = calls
             /\ \A i \in 1..Len(log) : PageDecoded(log[i])
             /\ \A i \in 1..(Len(log) - 1) : NextLink(i) # Str0
             /\ NextLink(Len(log)) = Str0
             /\ result.values = PagesValues(log, 1)
        ELSE /\ result.err = djret
             /\ \A i \in 1..(calls - 1) : PageDecoded(log[i]) /\ NextLink(i) # Str0
             /\ Len(log) = calls => ~PageDecoded(log[calls])
             /\ result.values = << >>

\* C21: a GetAllValues call on a listing whose next links end at a page
\* without one returns in the end, with the values of all pages as soon as that
\* page has been taken, or with the error of the first page that fails.
C21_ChainTerminates == (ListingChain ~> ListReturned) /\ []ReturnedAtEnd
C21_Witness ==
    /\ ListReturned /\ IsChain
    /\ listing = TestListing
    /\ Len(log) = 2
    /\ NextLink(1) = PageURL(2) /\ NextLink(2) = Str0
    /\ result = Returned(<<Record(1, 1), Record(1, 2), Record(2, 1)>>, NoErr)
C21_FailedOnSecondPage ==
    /\ ListReturned /\ IsChain
    /\ Len(log) = 2 /\ PageDecoded(log[1]) /\ ~PageDecoded(log[2])
    /\ result.err # NoErr

\* the last DoJSON call was to decode a response that reported success and whose
\* body does not decode into its target
DecodeFailed ==
    /\ ThroughDoJSON /\ DoJSONDone /\ Obtained
    /\ LastResp.status < StatusBadRequest
    /\ dj.target # "none"
    /\ NotDecodable(LastResp.body, dj.target)

\* C22 as stated: the decode error of a page inside GetAllValues carries a
\* context of its own, other than the one of a direct DoJSON call.
C22_ListingDecodeErrorDistinct ==
    (ListReturned /\ DecodeFailed) => result.err.msg # "decode response"

\* C22: every failure to decode is returned by DoJSON wrapped in the context
\* "decode response" around the error of the decoder; GetAllValues adds no
\* context: the failure to decode a page is returned as the error of DoJSON,
\* unchanged, the same a direct DoJSON call into a listing page returns for that
\* response.
C22_DecodeErrorWrappedOnce ==
    DecodeFailed =>
        /\ djret = Wrap("decode response", Decode(LastResp.body, dj.target).err)
        /\ IsDecodeError(djret)
        /\ result.returned /\ result.err = djret
        /\ op.name = "GetAllValues" => result.err = DoJSON(ret, "list").err /\ result.values = << >>
C22_Witness ==
    /\ ListReturned /\ DecodeFailed
    /\ Len(log) = 2
    /\ LastResp.status = 200 /\ LastResp.body.json = "invalid"
    /\ result = Returned(<< >>, Wrap("decode response", "invalid character"))
C22_SameErrorDirect ==
    /\ DirectReturned /\ DecodeFailed
    /\ dj.target = "list"
    /\ LastResp.status = 200 /\ LastResp.body.json = "invalid"
    /\ result = Returned(<< >>, Wrap("decode response", "invalid character"))

\* the last DoJSON call had no output target and got a response that reports success
DiscardedBody ==
    /\ ThroughDoJSON /\ DoJSONDone /\ Obtained
    /\ LastResp.status < StatusBadRequest
    /\ dj.target = "none"

\* C23: a DoJSON call without output target that gets a response with a status
\* below 400 returns no error whatever the body holds, decodes nothing of it
\* and closes it once.
C23_NoTargetNoError ==
    DiscardedBody =>
        /\ djret = NoErr
        /\ out = Unwritten
        /\ log[Len(log)].closes = 1
        /\ result = Returned(<< >>, NoErr)
C23_Witness ==
    /\ DirectReturned /\ DiscardedBody
    /\ LastResp.status = 200
    /\ LastResp.body.json = "invalid"
    /\ RunsLen(LastResp.body.runs) > 0
    /\ result.err = NoErr
C23_EmptyBodyDiscarded ==
    /\ DirectReturned /\ DiscardedBody
    /\ LastResp.status = 204
    /\ LastResp.body.runs = << >>
    /\ result.err = NoErr

\* C24: Request, DoJSON and GetAllValues leave the client as NewClientWithUser
\* made it of its configuration (base URL, token, username, user agent), and
\* leave the query values of the caller as they were given: buildURL only reads
\* them, on the first request of a call as on every other, whether the call
\* fails or not; the requests after the first of a GetAllValues call are not
\* handed them at all.
C24_NothingModified ==
    /\ client = ClientOf(config)
    /\ config \in Configs \cup {TestConfig}
    /\ built.called => built.after = built.query
    /\ (op.name # "none" /\ calls = 1) => built.query = op.query /\ built.after = op.query
    /\ (op.name = "GetAllValues" /\ calls >= 2) => built.query = NoQuery /\ built.after = NoQuery
C24_Witness ==
    /\ ListReturned
    /\ calls = 1
    /\ op.query = QueryK
    /\ built.after = QueryK
    /\ result.err # NoErr
    /\ client = ClientOf(config)
    /\ config.username # Str0
C24_DirectCallWithQuery ==
    /\ DirectReturned
    /\ op.query = QueryK
    /\ built.after = QueryK
    /\ result.err = NoErr
C24_KeyOfTheURLAdded ==
    /\ DirectReturned
    /\ op.path = PageURL(2)
    /\ op.query = QueryKP
    /\ built.after = QueryKP
    /\ URLQuery(ParseURL(built.url))[<<"p">>] = << <<"2">>, <<"u">>, <<"w">> >>

\* the links of the listing lead back to one of its pages
Cyclic == \E i \in 1..Len(listing) : listing[Len(listing)].next = PageURL(i)

\* a GetAllValues call on such a listing no exchange of which has failed
CycleWalk == op.name = "GetAllValues" /\ Cyclic /\ log # << >> /\ \A i \in 1..Len(log) : PageServed(log[i])

\* the values of entries i to j of the log
ValuesBetween(i, j) == PagesValues(SubSeq(log, i, j), 1)

\* C25 as stated: on a cycle the accumulated values grow without bound: every
\* round of the cycle, from a request to the next request for the same URL,
\* makes them longer.
C25_ValuesGrowEveryRound ==
    CycleWalk =>
        \A i \in 1..Len(log) : \A j \in (i + 1)..Len(log) :
            log[i].req.url = log[j].req.url => ValuesBetween(i, j - 1) # << >>

\* C25: a GetAllValues call on a listing whose links form a cycle does not
\* return while no exchange fails: after every page taken the next request is
\* made, to the link of that page, also when that URL was asked for before, and
\* the accumulated values are those of all pages taken so far, in order, a
\* page counted every time it is fetched: they grow every round of the cycle
\* in which a page carries values, and stay as they are when none does.
C25_CycleNeverReturns ==
    CycleWalk =>
        /\ ~result.returned
        /\ pc \in {"request", "response"}
        /\ pc = "request" =>
             /\ calls = Len(log)
             /\ dj.path = NextLink(Len(log)) /\ dj.path # Str0
             /\ all = ValuesBetween(1, Len(log))
        /\ pc = "response" => all = ValuesBetween(1, Len(log) - 1)
        /\ \A i \in 1..Len(log) : \A j \in (i + 1)..Len(log) :
             (log[i].req.url = log[j].req.url /\ pc = "request")
                 => Len(all) = Len(ValuesBetween(1, i - 1)) + Len(ValuesBetween(i, j - 1)) + Len(ValuesBetween(j, Len(log)))
C25_Witness ==
    /\ CycleWalk
    /\ pc = "request"
    /\ Len(listing) = 1 /\ Len(listing[1].values) = 2
    /\ Len(log) = MaxRequests
    /\ log[2].req.url = PageURL(1) /\ log[3].req.url = PageURL(1)
    /\ Len(all) = 2 * Len(log)
C25_EmptyPagesCycle ==
    /\ CycleWalk
    /\ pc = "request"
    /\ Len(log) >= 3
    /\ log[2].req.url = log[3].req.url
    /\ all = << >>

\* the host request i was sent to, and the host of the base URL of the client
RequestHost(i) == ParseURL(log[i].req.url).host
BaseHost == ParseURL(client.baseURL).host

\* C26: every request carries the Authorization header of the configuration of
\* the client, whatever host its URL names: a request to the next link of a
\* page or to an absolute URL of the caller on a host other than the one of the
\* base URL carries the Bearer token, or the Basic credentials, like a request
\* to the base URL.
C26_CredentialsToEveryHost ==
    \A i \in 1..Len(log) :
        /\ log[i].req.authorization = Authorization(client)
        /\ (RequestHost(i) # BaseHost /\ client.token # Str0) =>
             /\ log[i].req.authorization.set
             /\ log[i].req.authorization.param \in {client.token, client.username \o <<":">> \o client.token}
C26_Witness ==
    /\ op.name = "GetAllValues"
    /\ listing = ForeignLinkListing
    /\ Len(log) = 2
    /\ RequestHost(1) = BaseHost /\ BaseHost = <<"h">>
    /\ log[2].req.url = NextLink(1)
    /\ RequestHost(2) = <<"g">>
    /\ log[2].req.authorization = Header("Bearer", <<"t">>)
C26_BasicToForeignURL ==
    /\ op.name = "GetAllValues"
    /\ op.path = ForeignURL
    /\ Len(log) = 1
    /\ RequestHost(1) = <<"g">>
    /\ log[1].req.authorization = Header("Basic", <<"u", ":", "t">>)

\* the last DoJSON call had an output target and got a response that reports
\* success and has no body
EmptySuccess ==
    /\ ThroughDoJSON /\ DoJSONDone /\ Obtained
    /\ LastResp.status < StatusBadRequest
    /\ dj.target # "none"
    /\ LastResp.body.runs = << >>

\* C27: a DoJSON call with an output target that gets a response with a status
\* below 400 and an empty body returns a decode error, the end of input
\* wrapped as "decode response"; bb api, which always passes a target, then
\* prints that error to stderr, nothing to stdout, and exits 1.
C27_EmptyBodyIsDecodeError ==
    /\ EmptySuccess =>
         /\ djret = Wrap("decode response", "EOF")
         /\ IsDecodeError(djret)
         /\ result.returned /\ result.err = djret
    /\ (cli.args.name = "api" /\ cli.phase = "fetch" /\ calls >= 1) => dj.target # "none"
    /\ (ClientReturned /\ cli.args.name = "api" /\ EmptySuccess) =>
         /\ cli.code = 1
         /\ cli.stdout = << >>
         /\ cli.stderr = <<Wrap("decode response", "EOF")>>
C27_Witness ==
    /\ ClientReturned /\ EmptySuccess
    /\ cli.args.name = "api"
    /\ ~cli.args.paginate
    /\ dj.target = "any"
    /\ Len(log) = 1
    /\ LastResp.status = 204
    /\ cli.code = 1
    /\ cli.stderr = <<Wrap("decode response", "EOF")>>
C27_PaginatedEmptyBody ==
    /\ ClientReturned /\ EmptySuccess
    /\ cli.args.name = "api"
    /\ cli.args.paginate
    /\ LastResp.status = 204
    /\ cli.code = 1

\* the commands with an --output flag that call the client
WriteNames == {"pr create", "pipeline run", "issue create", "issue update"}
OutputNames == ListNames \cup WriteNames

\* the command has returned on an --output value it does not support
OutputRefused ==
    /\ cli.phase = "done"
    /\ cli.args.name \in OutputNames
    /\ cli.stderr = <<Errorf("unsupported output format")>>

\* C28: a list or write command looks at its --output value only when the
\* client has returned without error: a command that refuses the value has
\* sent its request before, the POST or PUT with its body for pr create,
\* pipeline run, issue create and issue update, and got the answer; it then
\* prints nothing to stdout and returns 1. With an unsupported value a command
\* whose request succeeded always ends that way.
C28_OutputCheckedAfterRequest ==
    /\ OutputRefused =>
         /\ result.returned /\ result.err = NoErr
         /\ log # << >> /\ Len(log) = calls
         /\ \A i \in 1..Len(log) : PageDecoded(log[i]) /\ log[i].closes = 1
         /\ cli.code = 1 /\ cli.stdout = << >>
         /\ cli.args.name \in WriteNames =>
              /\ Len(log) = 1
              /\ log[1].req.method = CommandMethod(cli.args.name)
              /\ log[1].req.contentType = ApplicationJSON
         /\ cli.args.name \in ListNames => log[1].req.method = "GET"
    /\ (ClientReturned /\ cli.args.name \in WriteNames /\ result.err = NoErr
            /\ cli.args.output \notin {"json", "text"}) => OutputRefused
    /\ (ClientReturned /\ cli.args.name \in ListNames /\ result.err = NoErr
            /\ cli.args.output \notin {"json", "table"}) => OutputRefused
C28_Witness ==
    /\ OutputRefused
    /\ cli.args.name = "pr create"
    /\ cli.args.output = "xml"
    /\ Len(log) = 1
    /\ log[1].req.method = "POST"
    /\ log[1].req.url = ServerURL \o REPOSITORIES \o <<"r", "/", "s">> \o PULLREQUESTS
    /\ log[1].resp.status = 200
    /\ cli.code = 1
C28_IssueUpdateRefused ==
    /\ OutputRefused
    /\ cli.args.name = "issue update"
    /\ log[1].req.method = "PUT"
    /\ log[1].resp.status = 200
C28_ListRefusedAfterAllPages ==
    /\ OutputRefused
    /\ cli.args.name = "repo list"
    /\ cli.args.all
    /\ Len(log) = 2
    /\ cli.code = 1

\* ------------------------------------------------------------------ C29

\* the command has a clone it works in
InClone == cli.phase \notin {"start", "done"}

\* the step i of the command was the clone, failing or not
CloneStep(i) == cli.steps[i].cmd = "clone"

\* C29: after a wiki list, get or put has returned, whatever the exit path
\* (clone failure, read or write failure, a failing git step, unsupported
\* output, no change, success), no temporary clone directory it made remains
C29_NoCloneDirRemains == cli.phase = "done" => cli.tmp = { }

\* the clone failed after os.MkdirTemp had made the directory, and the
\* directory is gone
C29_Witness ==
    /\ cli.phase = "done"
    /\ Len(cli.steps) = 1
    /\ CloneStep(1)
    /\ ~cli.steps[1].ok
    /\ cli.tmp = { }

\* while the command works in its clone the directory is there
C29_CloneDirWhileWorking == InClone => cli.tmp = {TempDir} /\ cli.dir = TempDir

\* a wiki put that pushed has removed its clone
C29_RemovedAfterPush ==
    /\ cli.phase = "done"
    /\ cli.code = 0
    /\ Len(cli.steps) = 9
    /\ cli.steps[9] = Step("push", "HEAD", TRUE)
    /\ cli.tmp = { }

\* a wiki get refused for its output format after the read has removed its clone
C29_RemovedAfterUnsupportedOutput ==
    /\ cli.phase = "done"
    /\ cli.args.name = "wiki get"
    /\ cli.stderr = <<UnsupportedOutput>>
    /\ Len(cli.steps) = 2
    /\ cli.tmp = { }

\* ------------------------------------------------------------------ C30

\* the git steps the order is about, and the file written
OrderedSteps == <<"clone", "write", "add", "status", "commit", "push">>
IsOrderedStep(s) == \E k \in 1..Len(OrderedSteps) : OrderedSteps[k] = s.cmd

\* the steps taken, of those the order is about
TakenInOrder == SelectSeq(cli.steps, IsOrderedStep)

\* the steps were taken in the order clone, write, add, status, commit, push
PutStepsInOrder ==
    /\ Len(TakenInOrder) <= Len(OrderedSteps)
    /\ \A i \in 1..Len(TakenInOrder) : TakenInOrder[i].cmd = OrderedSteps[i]

\* a failing step is the last one, and the command has returned 1
FailureStops ==
    \A i \in 1..Len(cli.steps) :
        ~cli.steps[i].ok => i = Len(cli.steps) /\ cli.phase = "done" /\ cli.code = 1

\* a push comes right after a commit that succeeded
PushAfterCommit ==
    \A i \in 1..Len(cli.steps) :
        cli.steps[i].cmd = "push" => i > 1 /\ cli.steps[i - 1].cmd = "commit" /\ cli.steps[i - 1].ok

\* git status succeeded and printed nothing
NoChange ==
    \E i \in 1..Len(cli.steps) :
        cli.steps[i].cmd = "status" /\ cli.steps[i].ok /\ TrimSpace(cli.steps[i].arg) = Str0

NeitherCommitNorPush == \A i \in 1..Len(cli.steps) : cli.steps[i].cmd \notin {"commit", "push"}

ReportsNoChange ==
    \/ cli.stdout = <<Line("No changes for wiki page: ", cli.page)>>
    \/ cli.stdout = <<printJSON([page |-> cli.page, status |-> "no_change"])>>

ReportsUpdated ==
    \/ cli.stdout = <<Line("Updated wiki page: ", cli.page)>>
    \/ cli.stdout = <<printJSON([page |-> cli.page, status |-> "updated"])>>

\* the last step was a push that succeeded
Pushed == cli.steps # << >> /\ cli.steps[Len(cli.steps)] = Step("push", "HEAD", TRUE)

\* wiki put takes its steps in order, stops at the first failure with exit
\* 1, pushes only after a commit; when status reports no change it neither
\* commits nor pushes and reports no change with exit 0; it reports the
\* update only after a push
C30_NoChangeAlwaysExitsZero ==
    cli.args.name = "wiki put" =>
        /\ PutStepsInOrder
        /\ FailureStops
        /\ PushAfterCommit
        /\ NoChange => NeitherCommitNorPush /\ cli.phase = "done" /\ cli.code = 0 /\ ReportsNoChange
        /\ ReportsUpdated => Pushed

\* C30: wiki put takes its steps in the order clone, write, add, status,
\* commit, push, stops at the first failing step with exit 1 and pushes only
\* after a successful commit; when status reports no change it neither
\* commits nor pushes, and reports no change with exit 0 when --output is
\* text or json, while any other --output exits 1 with "unsupported output
\* format"; the update is reported only after a successful push
C30_NoChangeExitsZeroInSupportedOutput ==
    cli.args.name = "wiki put" =>
        /\ PutStepsInOrder
        /\ FailureStops
        /\ PushAfterCommit
        /\ NoChange =>
             /\ NeitherCommitNorPush
             /\ cli.phase = "done"
             /\ IF cli.args.output \in {"text", "json"}
                THEN cli.code = 0 /\ ReportsNoChange
                ELSE cli.code = 1 /\ cli.stdout = << >> /\ cli.stderr = <<UnsupportedOutput>>
        /\ ReportsUpdated => Pushed

\* a put that went through every step and reported the update
C30_Witness ==
    /\ cli.phase = "done"
    /\ cli.args.name = "wiki put"
    /\ cli.code = 0
    /\ Len(TakenInOrder) = 6
    /\ Pushed
    /\ cli.stdout = <<Line("Updated wiki page: ", <<"h">>)>>

\* a put of unchanged content reported in text
C30_NoChangeReported ==
    /\ cli.phase = "done"
    /\ cli.args.name = "wiki put"
    /\ NoChange
    /\ cli.code = 0
    /\ cli.stdout = <<Line("No changes for wiki page: ", <<"h">>)>>

\* a put of unchanged content refused for its output format
C30_NoChangeUnsupportedOutput ==
    /\ cli.phase = "done"
    /\ cli.args.name = "wiki put"
    /\ NoChange
    /\ cli.code = 1
    /\ cli.stderr = <<UnsupportedOutput>>

\* a commit that failed: nothing was pushed
C30_CommitFailedNoPush ==
    /\ cli.phase = "done"
    /\ cli.args.name = "wiki put"
    /\ cli.steps # << >>
    /\ cli.steps[Len(cli.steps)].cmd = "commit"
    /\ ~cli.steps[Len(cli.steps)].ok
    /\ cli.code = 1

====
